---- MODULE Spec2Model ----
(***************************************************************************)
(* A model of the Gemini-OpenAI bridge: the request validator              *)
(* (validation.ts), the remote image fetcher (remoteimage.ts), the request *)
(* mapper, response mapper and stream mapper (mapper.ts), the model client *)
(* wrapper (chatwrapper.ts) and the HTTP handler (server.ts).              *)
(*                                                                         *)
(* JavaScript values are tagged records [t |-> <typeof>, v |-> <value>].   *)
(* Strings are sequences of tokens (short strings), so that concatenation,  *)
(* emptiness (falsy "") and the think markers are explicit.                *)
(***************************************************************************)
EXTENDS Integers, Sequences, FiniteSets, TLC

VARIABLES
  \* ---- one stream mapper instance (mapper.ts createStreamMapper) ----
  wasThinking,   \* the closure variable of the instance
  fed,           \* history: the chunks given to mapChunk so far, in order
  deltas,        \* history: the chunks mapChunk returned, in order
  \* ---- one call of validateChatRequest (validation.ts) ----
  vBody,         \* the parsed JSON body given to it
  vResult,       \* what the call produced: pending, valid, invalid or throw
  \* ---- one call of mapRequest (mapper.ts) ----
  mBody,         \* the validated body given to it
  mapCall,       \* its position and locals: pc, mi, ii, sys, contents, parts,
                 \* fetches (history: the URLs given to fetchAndEncode), settled
                 \* (history: how many of those calls have settled), error
  mapped,        \* the MappedRequest it resolved with, or undefined
  \* ---- one provider response and its mapping (mapper.ts mapResponse) ----
  gResp,         \* the provider's response (null until there is one)
  oResp,         \* what mapResponse returned for it, or undefined
  oChunk,        \* what mapChunk returned for a chunk with its usage metadata
  \* ---- one call of fetchAndEncode (remoteimage.ts) ----
  fetchRes,      \* the HTTP response the remote host gives
  fetchCall,     \* its position and locals: pc, totalSize, chunks, sizes
                 \* (history: the lengths of the body chunks read), result, error,
                 \* aborted (controller.signal.aborted), timerFired (history)
  \* ---- one HTTP request handled by the server (server.ts) ----
  request,       \* method, url and body text of the request
  handler,       \* the handler's position, its stream mapper, and histories:
                 \* calls made, chunks the upstream yielded, how it ended,
                 \* the params given to the model client (generate)
  res,           \* the ServerResponse: heads written, events written, end
  \* ---- stream mapper instances of connections in flight (mapper.ts) ----
  instances      \* for each instance its closure variable wasThinking and the
                 \* histories fed and deltas

streamVars == <<wasThinking, fed, deltas>>
validateVars == <<vBody, vResult>>
mapVars == <<mBody, mapCall, mapped>>
respVars == <<gResp, oResp, oChunk>>
fetchVars == <<fetchRes, fetchCall>>
serverVars == <<request, handler, res>>
instanceVars == <<instances>>

vars == <<streamVars, validateVars, mapVars, respVars, fetchVars, serverVars, instanceVars>>

\* What the actions of each component leave alone.
notStream == <<validateVars, mapVars, respVars, fetchVars, serverVars, instanceVars>>
notValidate == <<streamVars, mapVars, respVars, fetchVars, serverVars, instanceVars>>
notMap == <<streamVars, validateVars, respVars, fetchVars, serverVars, instanceVars>>
notResp == <<streamVars, validateVars, mapVars, fetchVars, serverVars, instanceVars>>
notFetch == <<streamVars, validateVars, mapVars, respVars, serverVars, instanceVars>>
notServer == <<streamVars, validateVars, respVars, fetchVars, instanceVars>>
notInstances == <<streamVars, validateVars, mapVars, respVars, fetchVars, serverVars>>

(***************************************************************************)
(* JavaScript values                                                       *)
(***************************************************************************)
Undefined == [t |-> "undefined"]
Null == [t |-> "null"]
Str(s) == [t |-> "string", v |-> s]
Num(n) == [t |-> "number", v |-> n]

\* a ?? b
IsNullish(v) == v.t \in {"undefined", "null"}
Coalesce(a, b) == IF a.t \in {"undefined", "null"} THEN b ELSE a

IsString(x) == x.t = "string"

\* The two markers are single tokens of the output text.
OpenTag == "<think>"
CloseTag == "</think>"

(***************************************************************************)
(* Usage accounting, shared by mapResponse and mapChunk                    *)
(***************************************************************************)
NoUsageFields ==
  [promptTokenCount |-> Undefined, promptTokens |-> Undefined,
   candidatesTokenCount |-> Undefined, candidatesTokens |-> Undefined,
   totalTokenCount |-> Undefined, totalTokens |-> Undefined]

\* A mutant: the *Tokens field wins over the *TokenCount field.
MapUsageTokensFirst(usage) ==
  [prompt_tokens |-> Coalesce(usage.promptTokens, Coalesce(usage.promptTokenCount, Num(0))),
   completion_tokens |-> Coalesce(usage.candidatesTokens, Coalesce(usage.candidatesTokenCount, Num(0))),
   total_tokens |-> Coalesce(usage.totalTokens, Coalesce(usage.totalTokenCount, Num(0)))]

MapUsage(usage) ==
  [prompt_tokens |-> Coalesce(usage.promptTokenCount, Coalesce(usage.promptTokens, Num(0))),
   completion_tokens |-> Coalesce(usage.candidatesTokenCount, Coalesce(usage.candidatesTokens, Num(0))),
   total_tokens |-> Coalesce(usage.totalTokenCount, Coalesce(usage.totalTokens, Num(0)))]

(***************************************************************************)
(* Stream mapper: createStreamMapper / mapChunk                            *)
(***************************************************************************)
\* A provider part: thought is the flag (thought === true), text a string or
\* undefined (an inlineData part has neither).
ThoughtPart(s) == [thought |-> TRUE, text |-> Str(s)]
ThoughtNoText == [thought |-> TRUE, text |-> Undefined]
PlainPart(s) == [thought |-> FALSE, text |-> Str(s)]
OtherPart == [thought |-> FALSE, text |-> Undefined]

\* The loop over the parts of one chunk: acc = [content, isThinking].
\* wasThinking is read, never written, inside the loop.
RECURSIVE MapParts(_, _, _, _)
MapParts(parts, i, was, acc) ==
  IF i > Len(parts) THEN acc
  ELSE LET part == parts[i] IN
    IF part.thought = TRUE
    THEN MapParts(parts, i + 1, was,
           [content |-> (IF ~was THEN acc.content \o <<OpenTag>> ELSE acc.content)
                          \o Coalesce(part.text, Str(<<>>)).v,
            isThinking |-> TRUE])
    ELSE IF IsString(part.text)
    THEN MapParts(parts, i + 1, was,
           [content |-> (IF was /\ ~acc.isThinking THEN acc.content \o <<CloseTag>>
                                                   ELSE acc.content)
                          \o part.text.v,
            isThinking |-> acc.isThinking])
    ELSE MapParts(parts, i + 1, was, acc)

\* A mutant: the state, once true, stays true.
MapChunkSticky(chunk, was) ==
  LET acc == MapParts(chunk.parts, 1, was, [content |-> <<>>, isThinking |-> FALSE])
  IN [result |->
        [delta |-> [role |-> "assistant",
                    content |-> IF acc.content = <<>> THEN Undefined
                                                      ELSE Str(acc.content)],
         index |-> 0,
         finish_reason |-> Null,
         usage |-> IF chunk.usage.t = "undefined" THEN Undefined
                   ELSE [t |-> "object", v |-> MapUsage(chunk.usage.v)]],
      wasThinking |-> was \/ acc.isThinking]

\* chunk?.candidates?.[0]?.content?.parts ?? []  (a chunk without candidates
\* is modelled as parts = <<>>) and chunk?.usageMetadata.
\* Returns the OpenAI chunk and the new value of wasThinking.
MapChunk(chunk, was) ==
  LET acc == MapParts(chunk.parts, 1, was, [content |-> <<>>, isThinking |-> FALSE])
  IN [result |->
        [delta |-> [role |-> "assistant",
                    content |-> IF acc.content = <<>> THEN Undefined
                                                      ELSE Str(acc.content)],
         index |-> 0,
         finish_reason |-> Null,
         usage |-> IF chunk.usage.t = "undefined" THEN Undefined
                   ELSE [t |-> "object", v |-> MapUsage(chunk.usage.v)]],
      wasThinking |-> acc.isThinking]

\* createFinalStreamChunk(wasThinking)
CreateFinalStreamChunk(was) ==
  IF ~was THEN Null
  ELSE [delta |-> [content |-> Str(<<CloseTag>>)], index |-> 0, finish_reason |-> "stop"]

(***************************************************************************)
(* Specification SpecStream: one stream mapper instance fed chunk by chunk *)
(***************************************************************************)
\* Bounds of the stream: the number of chunks fed to one instance and the
\* number of parts in all of them together.
MaxChunks == 3
MaxParts == 4

SeqsUpTo(S, n) == UNION {[1..k -> S] : k \in 0..n}

\* The kinds of part mapChunk distinguishes.
PartKinds == {ThoughtPart(<<"r">>), ThoughtNoText, PlainPart(<<"p">>), OtherPart}

\* A usage object reported under both naming schemes at once.
SampleUsage ==
  [NoUsageFields EXCEPT !.promptTokenCount = Num(1), !.candidatesTokens = Num(2)]

UsageChoices == {Undefined, [t |-> "object", v |-> SampleUsage]}

RECURSIVE Flatten(_)
Flatten(chunks) ==
  IF chunks = <<>> THEN <<>> ELSE Head(chunks).parts \o Flatten(Tail(chunks))

StreamIdle == wasThinking = FALSE /\ fed = <<>> /\ deltas = <<>>
ValidateIdle == vBody = [t |-> "null"] /\ vResult = [kind |-> "pending"]

MapIdle ==
  /\ mBody = [t |-> "null"]
  /\ mapCall = [pc |-> "idle", mi |-> 1, ii |-> 1, sys |-> [t |-> "undefined"],
                contents |-> <<>>, parts |-> <<>>, fetches |-> <<>>, settled |-> 0,
                error |-> ""]
  /\ mapped = [t |-> "undefined"]

RespIdle == gResp = [t |-> "null"] /\ oResp = [t |-> "undefined"] /\ oChunk = [t |-> "undefined"]

FetchIdle ==
  /\ fetchRes = [t |-> "null"]
  /\ fetchCall = [pc |-> "idle", status |-> [t |-> "undefined"], totalSize |-> 0,
                  chunks |-> <<>>, sizes |-> <<>>, result |-> [t |-> "undefined"],
                  error |-> "", aborted |-> FALSE, timerFired |-> FALSE]

ServerIdle ==
  /\ request = [t |-> "null"]
  /\ handler = [pc |-> "idle", mapper |-> [t |-> "undefined"], calls |-> <<>>,
                upstream |-> <<>>, upstreamFailed |-> FALSE, error |-> "",
                generate |-> <<>>]
  /\ res = [cors |-> FALSE, heads |-> <<>>, events |-> <<>>, ended |-> FALSE,
            body |-> [t |-> "undefined"]]

InstancesIdle == instances = <<>>

StreamInit == StreamIdle /\ ValidateIdle /\ MapIdle /\ RespIdle /\ FetchIdle /\ ServerIdle /\ InstancesIdle

\* mapChunk(chunk): one call on the instance.
MapChunkCall ==
  /\ Len(fed) < MaxChunks
  /\ \E parts \in SeqsUpTo(PartKinds, MaxParts - Len(Flatten(fed))),
        usage \in UsageChoices :
       LET chunk == [parts |-> parts, usage |-> usage]
           r == MapChunk(chunk, wasThinking)
       IN /\ wasThinking' = r.wasThinking
          /\ fed' = Append(fed, chunk)
          /\ deltas' = Append(deltas, r.result)
  /\ UNCHANGED notStream

StreamNext == MapChunkCall

SpecStream == StreamInit /\ [][StreamNext]_vars

\* The text a caller sees: the delta contents, concatenated in order.
RECURSIVE Emitted(_)
Emitted(ds) ==
  IF ds = <<>> THEN <<>>
  ELSE Coalesce(Head(ds).delta.content, Str(<<>>)).v \o Emitted(Tail(ds))

RECURSIVE PartTexts(_)
PartTexts(ps) ==
  IF ps = <<>> THEN <<>>
  ELSE Coalesce(Head(ps).text, Str(<<>>)).v \o PartTexts(Tail(ps))

\* ps is one or more reasoning parts followed by one or more plain text parts.
ReasoningThenPlain(ps) ==
  \E k \in 1..(Len(ps) - 1) :
     /\ \A i \in 1..k : ps[i].thought = TRUE
     /\ \A i \in (k + 1)..Len(ps) : ps[i].thought = FALSE /\ IsString(ps[i].text)

FirstPlain(ps) == CHOOSE k \in 1..Len(ps) :
  ps[k].thought = FALSE /\ \A i \in 1..(k - 1) : ps[i].thought = TRUE

\* C1: whenever the parts fed so far are reasoning parts followed by plain
\* text parts, however they were split into chunks, the emitted text is
\* "<think>", the reasoning texts, "</think>", the plain texts: each marker
\* exactly once, the first before the first reasoning text and the second
\* immediately before the first plain text.
C1_MarkersOnceEach ==
  LET ps == Flatten(fed) IN
  ReasoningThenPlain(ps) =>
    Emitted(deltas) = <<OpenTag>> \o PartTexts(SubSeq(ps, 1, FirstPlain(ps) - 1))
                        \o <<CloseTag>> \o PartTexts(SubSeq(ps, FirstPlain(ps), Len(ps)))

(***************************************************************************)
(* JSON values as the validator sees them (validation.ts)                  *)
(***************************************************************************)
\* A string that is one name, such as a role, a type or an error code.
Name(s) == Str(<<s>>)
Arr(items) == [t |-> "array", v |-> items]

\* v.k: undefined for a missing property and for a primitive; reading a
\* property of null or undefined throws a TypeError (see Throws).
Prop(v, k) == IF v.t = "object" /\ k \in DOMAIN v THEN v[k] ELSE Undefined
Throws(v) == v.t \in {"null", "undefined"}

IsArray(v) == v.t = "array"
\* !v for the values that occur: undefined, null, "" and 0 are falsy.
Falsy(v) ==
  \/ v.t \in {"undefined", "null"}
  \/ (v.t = "string" /\ v.v = <<>>)
  \/ (v.t = "number" /\ v.v = 0)

\* A URL string is a sequence of tokens, the first its scheme. new URL(s)
\* accepts a string with a scheme (and, for http(s), a host after it).
Schemes == {"data:", "https://", "http://"}
ValidURL(s) ==
  /\ Len(s) >= 1
  /\ Head(s) \in Schemes
  /\ (Head(s) # "data:" => Len(s) >= 2)

DefaultErrorType == Name("invalid_request_error")

\* createError(message, type = 'invalid_request_error', code = null): a
\* parameter left out (undefined) takes its default; code ?? undefined.
CreateError(message, type, code) ==
  [error |-> [message |-> message,
              type |-> IF type.t = "undefined" THEN DefaultErrorType ELSE type,
              code |-> Coalesce(code, Undefined)]]

\* An error message: its fixed text and the indices formatted into it.
Msg(text, i, j) == [text |-> text, i |-> i, j |-> j]

Invalid(text, i, j, code) ==
  [kind |-> "invalid",
   error |-> CreateError(Msg(text, i, j), Name("invalid_request_error"), Name(code))]
Thrown(name) == [kind |-> "throw", name |-> name]
NoFailure == [kind |-> "none"]

\* The checks of one content item (validateMessages, inner loop body);
\* i and j are the 0-based indices of the message and the item.
ValidateItem(item, i, j) ==
  IF Throws(item) THEN Thrown("TypeError")
  ELSE IF ~IsString(Prop(item, "type"))
  THEN Invalid("content.type is required", i, j, "missing_required_parameter")
  ELSE IF Prop(item, "type") = Name("text") /\ ~IsString(Prop(item, "text"))
  THEN Invalid("content.text must be a string for type text", i, j, "invalid_type")
  ELSE IF Prop(item, "type") = Name("image_url")
  THEN IF Falsy(Prop(item, "image_url")) \/ ~IsString(Prop(Prop(item, "image_url"), "url"))
       THEN Invalid("content.image_url.url is required for type image_url", i, j,
                    "missing_required_parameter")
       ELSE IF ~ValidURL(Prop(Prop(item, "image_url"), "url").v)
       THEN Invalid("content.image_url.url is not a valid URL", i, j, "invalid_value")
       ELSE NoFailure
  ELSE NoFailure

\* for (let j = 0; ...) over msg.content: the first failure, if any.
RECURSIVE ValidateItems(_, _, _)
ValidateItems(items, i, j) ==
  IF j >= Len(items) THEN NoFailure
  ELSE LET r == ValidateItem(items[j + 1], i, j) IN
       IF r.kind # "none" THEN r ELSE ValidateItems(items, i, j + 1)

ValidRoles == {Name("system"), Name("user"), Name("assistant")}

\* The checks of one message (validateMessages, outer loop body).
ValidateMessage(msg, i) ==
  IF Throws(msg) THEN Thrown("TypeError")
  ELSE IF ~IsString(Prop(msg, "role"))
  THEN Invalid("role is required and must be a string", i, -1, "invalid_type")
  ELSE IF Prop(msg, "role") \notin ValidRoles
  THEN Invalid("role must be one of: system, user, assistant", i, -1, "invalid_value")
  ELSE IF Prop(msg, "content").t \in {"undefined", "null"}
  THEN Invalid("content is required", i, -1, "missing_required_parameter")
  ELSE IF ~IsString(Prop(msg, "content")) /\ ~IsArray(Prop(msg, "content"))
  THEN Invalid("content must be a string or array", i, -1, "invalid_type")
  ELSE IF IsArray(Prop(msg, "content"))
  THEN ValidateItems(Prop(msg, "content").v, i, 0)
  ELSE NoFailure

RECURSIVE ValidateEach(_, _)
ValidateEach(msgs, i) ==
  IF i >= Len(msgs) THEN NoFailure
  ELSE LET r == ValidateMessage(msgs[i + 1], i) IN
       IF r.kind # "none" THEN r ELSE ValidateEach(msgs, i + 1)

\* validateMessages(messages)
ValidateMessages(messages) ==
  IF ~IsArray(messages)
  THEN Invalid("messages is required and must be an array", -1, -1,
               "missing_required_parameter")
  ELSE IF Len(messages.v) = 0
  THEN Invalid("messages must contain at least one message", -1, -1, "invalid_value")
  ELSE LET r == ValidateEach(messages.v, 0) IN
       IF r.kind # "none" THEN r ELSE [kind |-> "valid", value |-> messages.v]

\* validateChatRequest(body): {valid: true, value}, {valid: false, error},
\* or the exception that escapes it.
ValidateChatRequest(body) ==
  IF body.t \notin {"object", "array"}
  THEN [kind |-> "invalid",
        error |-> CreateError(Msg("Request body must be a JSON object", -1, -1),
                              Name("invalid_request_error"), Undefined)]
  ELSE LET r == ValidateMessages(Prop(body, "messages")) IN
       IF r.kind = "valid" THEN [kind |-> "valid", value |-> [messages |-> r.value]]
       ELSE r

(***************************************************************************)
(* Specification SpecValidate: validateChatRequest on parsed JSON bodies   *)
(***************************************************************************)
\* Bound: the number of messages plus the number of content items of a body.
MaxSize == 3

Item(type, text, image_url) ==
  [t |-> "object", type |-> type, text |-> text, image_url |-> image_url]
ImageUrl(url) == [t |-> "object", url |-> url]
Message(role, content) == [t |-> "object", role |-> role, content |-> content]
TextItem(s) == Item(Name("text"), Str(s), Undefined)
ImageItem(url) == Item(Name("image_url"), Undefined, ImageUrl(Str(url)))

HttpsUrl == <<"https://", "host/a.png">>
OtherHttpsUrl == <<"https://", "host/b.png">>
DataUrl == <<"data:", "image/png", ";", "base64", ",", "AAAA">>

\* The shapes of content item the validator tells apart.
RawItems ==
  {Null,
   Item(Undefined, Undefined, Undefined),
   TextItem(<<"t">>),
   Item(Name("text"), Undefined, Undefined),
   Item(Name("image_url"), Undefined, Undefined),
   Item(Name("image_url"), Undefined, ImageUrl(Num(1))),
   ImageItem(<<"nourl">>),
   ImageItem(HttpsUrl),
   Item(Name("audio"), Undefined, Undefined)}

RawRoles == {Undefined, Name("tool"), Name("user"), Name("system")}

\* A message without content items: null, a number, or an object whose
\* content is null, a number, a string or [].
RawPlainMsgs ==
  {Null, Num(1)}
  \cup {Message(r, c) : r \in RawRoles, c \in {Null, Num(1), Str(<<"h">>), Arr(<<>>)}}

\* A message whose content is an array of items, still to be filled in.
RawArrayMsgs == {Message(r, Arr(<<>>)) : r \in RawRoles}

RECURSIVE Sum(_)
Sum(ks) == IF ks = <<>> THEN 0 ELSE Head(ks) + Sum(Tail(ks))

\* The shapes of a messages array: ks[i] is the number of content items of
\* message i; messages and items together number at most size.
Shapes(size) ==
  {ks \in UNION {[1..n -> 0..size] : n \in 0..size} : Len(ks) + Sum(ks) <= size}

\* Message i of the array: heads[i], holding its share of the items when
\* ks[i] > 0.
Assemble(ks, heads, items) ==
  [i \in 1..Len(ks) |->
     IF ks[i] = 0 THEN heads[i]
     ELSE [heads[i] EXCEPT !.content =
             Arr(SubSeq(items, Sum(SubSeq(ks, 1, i - 1)) + 1, Sum(SubSeq(ks, 1, i))))]]

HeadsFit(ks, heads, plain, array) ==
  \A i \in 1..Len(ks) : IF ks[i] = 0 THEN heads[i] \in plain ELSE heads[i] \in array

RawBody(messages) == [t |-> "object", messages |-> messages]

\* Bodies that are no object, or whose messages is no array.
RawOddBodies ==
  {Null, Num(1), Str(<<"h">>), Arr(<<>>),
   RawBody(Undefined), RawBody(Null), RawBody(Str(<<"h">>))}

ValidateInit ==
  /\ \/ vBody \in RawOddBodies
     \/ \E ks \in Shapes(MaxSize) :
        \E heads \in [1..Len(ks) -> RawPlainMsgs] :
          /\ HeadsFit(ks, heads, RawPlainMsgs, RawArrayMsgs)
          /\ \E items \in [1..Sum(ks) -> RawItems] :
               vBody = RawBody(Arr(Assemble(ks, heads, items)))
  /\ vResult = [kind |-> "pending"]
  /\ StreamIdle /\ MapIdle /\ RespIdle /\ FetchIdle /\ ServerIdle /\ InstancesIdle

\* validateChatRequest(body), once.
ValidateCall ==
  /\ vResult.kind = "pending"
  /\ vResult' = ValidateChatRequest(vBody)
  /\ UNCHANGED <<vBody, notValidate>>

ValidateNext == ValidateCall

SpecValidate == ValidateInit /\ [][ValidateNext]_vars

\* C8: validateChatRequest returns {valid:true, value} or {valid:false, error}
\* with a structured error for every parsed JSON body; it never throws.
C8_NeverThrows ==
  vResult.kind # "pending" =>
    \/ vResult.kind = "valid"
    \/ /\ vResult.kind = "invalid"
       /\ vResult.error.error.message.text # ""
       /\ IsString(vResult.error.error.type)

(***************************************************************************)
(* Request mapper: parseDataUrl, contentToParts, mapRequest (mapper.ts)    *)
(***************************************************************************)
Bool(b) == [t |-> "boolean", v |-> b]

\* String.prototype.toLowerCase on the tokens that have upper-case letters.
LowerToken(tok) ==
  CASE tok = "Google_Search" -> "google_search"
    [] tok = "SEARCH" -> "search"
    [] tok = "DATA:" -> "data:"
    [] tok = "BASE64" -> "base64"
    [] OTHER -> tok
ToLowerCase(s) == [i \in 1..Len(s) |-> LowerToken(s[i])]

\* GOOGLE_SEARCH_TOOL_NAMES
GOOGLE_SEARCH_TOOL_NAMES ==
  {<<"web_search">>, <<"google_search">>, <<"google_web_search">>, <<"search">>,
   <<"internet_search">>}

\* body.functions.filter(fn => !builtInTools.has(fn.name))
RECURSIVE CustomFunctions(_, _)
CustomFunctions(fns, builtIn) ==
  IF fns = <<>> THEN <<>>
  ELSE IF Head(fns).name.v \notin builtIn
  THEN <<Head(fns)>> \o CustomFunctions(Tail(fns), builtIn)
  ELSE CustomFunctions(Tail(fns), builtIn)

\* A mutant: the built-in names are collected in lower case.
FindBuiltInToolsLowered(functions) ==
  IF Falsy(functions) THEN {}
  ELSE {ToLowerCase(functions.v[i].name.v) :
          i \in {k \in 1..Len(functions.v) :
                   ToLowerCase(functions.v[k].name.v) \in GOOGLE_SEARCH_TOOL_NAMES}}

\* findBuiltInTools(functions): the names, as declared, of the functions whose
\* lower-cased name is reserved.
FindBuiltInTools(functions) ==
  IF Falsy(functions) THEN {}
  ELSE {functions.v[i].name.v :
          i \in {k \in 1..Len(functions.v) :
                   ToLowerCase(functions.v[k].name.v) \in GOOGLE_SEARCH_TOOL_NAMES}}

\* In a URL, a token other than ";" and "," stands for a run of [^;,].
Ordinary(tok) == tok \notin {";", ","}

\* The index after the longest run of ordinary tokens that starts at i.
RECURSIVE RunEnd(_, _)
RunEnd(toks, i) ==
  IF i <= Len(toks) /\ Ordinary(toks[i]) THEN RunEnd(toks, i + 1) ELSE i

\* decodeURIComponent: "%20" is an escape, a lone "%" is malformed.
Malformed(data) == \E i \in 1..Len(data) : data[i] = "%"
DecodeURIComponent(data) ==
  [i \in 1..Len(data) |-> IF data[i] = "%20" THEN " " ELSE data[i]]
\* Buffer.from(s).toString('base64')
Base64(bytes) == <<"base64(">> \o bytes \o <<")">>

\* url.toLowerCase().includes(';base64,')
IncludesBase64(url) ==
  \E j \in 1..(Len(url) - 2) :
     LET l == ToLowerCase(url) IN l[j] = ";" /\ l[j + 1] = "base64" /\ l[j + 2] = ","

\* parseDataUrl(url): /^data:([^;,]+)?(?:;base64)?,(.*)$/i on the tokens of
\* url. kind is "null" (no match), "ok" or "throw" (decodeURIComponent).
ParseDataUrl(url) ==
  IF Len(url) = 0 \/ LowerToken(Head(url)) # "data:" THEN [kind |-> "null"]
  ELSE
    LET rest == Tail(url)
        e == RunEnd(rest, 1)
        b64 == e + 1 <= Len(rest) /\ rest[e] = ";" /\ LowerToken(rest[e + 1]) = "base64"
        comma == IF b64 /\ e + 2 <= Len(rest) /\ rest[e + 2] = "," THEN e + 2
                 ELSE IF e <= Len(rest) /\ rest[e] = "," THEN e
                 ELSE 0
        group1 == SubSeq(rest, 1, e - 1)
        mimeType == IF group1 = <<>> THEN <<"application/octet-stream">> ELSE group1
        data == SubSeq(rest, comma + 1, Len(rest))
    IN IF comma = 0 THEN [kind |-> "null"]
       ELSE IF IncludesBase64(url)
       THEN [kind |-> "ok", mimeType |-> mimeType, data |-> data]
       ELSE IF Malformed(data) THEN [kind |-> "throw", mimeType |-> <<>>, data |-> <<>>]
       ELSE [kind |-> "ok", mimeType |-> mimeType, data |-> Base64(DecodeURIComponent(data))]

\* Provider parts built by contentToParts.
GText(s) == [text |-> Str(s), inlineData |-> Undefined]
GInline(mimeType, data) ==
  [text |-> Undefined, inlineData |-> [mimeType |-> mimeType, data |-> data]]

\* content.find((c) => c.type === 'text')?.text
RECURSIVE FindText(_)
FindText(items) ==
  IF items = <<>> THEN Undefined
  ELSE IF Prop(Head(items), "type") = Name("text") THEN Prop(Head(items), "text")
  ELSE FindText(Tail(items))

\* The text of a system message (mapRequest, lines 120-124).
SystemText(content) ==
  IF IsString(content) THEN content
  ELSE Coalesce(IF IsArray(content) THEN FindText(content.v) ELSE Str(<<>>), Str(<<>>))

\* systemInstruction ? `${systemInstruction}\n\n${text}` : text
JoinSystem(sys, text) ==
  IF Falsy(sys) THEN text ELSE Str(sys.v \o <<"\n\n">> \o text.v)

\* A mutant: string content yields no part.
StringPartsNone(content) == <<>>

\* contentToParts for string content (lines 105-107).
StringParts(content) == <<GText(content.v)>>

\* A mutant: every entry of contents gets the role user.
GeminiRoleUser(role) == "user"

\* m.role === 'assistant' ? 'model' : 'user'  (line 128)
GeminiRole(role) == IF role = Name("assistant") THEN "model" ELSE "user"

\* A mutant: the newest fetch is recorded ahead of the earlier ones.
AwaitFetchFirst(st, url) == [st EXCEPT !.pc = "fetching", !.fetches = <<url>> \o st.fetches]

\* await fetchAndEncode(url) (line 99): the fetch is started and the call
\* is suspended until it settles.
AwaitFetch(st, url) == [st EXCEPT !.pc = "fetching", !.fetches = Append(st.fetches, url)]

\* The position of mapRequest in its two loops and what it has built:
\*   pc      "run", "fetching" (awaiting fetchAndEncode), "built", "failed"
\*   mi, ii  1-based indices of the current message and content item
\*   parts   the parts of the current message so far
\* Advance runs the synchronous code up to the next await of fetchAndEncode,
\* to the end of the loop over body.messages, or to an exception.
RECURSIVE Advance(_, _)
Advance(messages, st) ==
  IF st.mi > Len(messages) THEN [st EXCEPT !.pc = "built"]
  ELSE
    LET m == messages[st.mi]
        content == Prop(m, "content")
    IN
    IF Prop(m, "role") = Name("system")
    THEN Advance(messages,
           [st EXCEPT !.sys = JoinSystem(st.sys, SystemText(content)), !.mi = st.mi + 1])
    ELSE
      LET geminiRole == GeminiRole(Prop(m, "role")) IN
      IF IsArray(content)
      THEN
        IF st.ii > Len(content.v)
        THEN Advance(messages,
               [st EXCEPT !.contents = Append(st.contents,
                                              [role |-> geminiRole, parts |-> st.parts]),
                          !.parts = <<>>, !.ii = 1, !.mi = st.mi + 1])
        ELSE
          LET item == content.v[st.ii] IN
          IF Prop(item, "type") = Name("image_url") /\ ~Falsy(Prop(item, "image_url"))
          THEN
            LET url == Prop(Prop(item, "image_url"), "url").v
                d == ParseDataUrl(url)
            IN IF d.kind = "ok"
               THEN Advance(messages,
                      [st EXCEPT !.parts = Append(st.parts, GInline(d.mimeType, d.data)),
                                 !.ii = st.ii + 1])
               ELSE IF d.kind = "throw"
               THEN [st EXCEPT !.pc = "failed", !.error = "URI malformed"]
               ELSE AwaitFetch(st, url)
          ELSE IF Prop(item, "type") = Name("text") /\ ~Falsy(Prop(item, "text"))
          THEN Advance(messages,
                 [st EXCEPT !.parts = Append(st.parts, GText(Prop(item, "text").v)),
                            !.ii = st.ii + 1])
          ELSE Advance(messages, [st EXCEPT !.ii = st.ii + 1])
      ELSE
        Advance(messages,
          [st EXCEPT !.contents =
                       Append(st.contents,
                              [role |-> geminiRole,
                               parts |-> IF IsString(content) THEN StringParts(content)
                                         ELSE <<>>]),
                     !.mi = st.mi + 1])

MapStart ==
  [pc |-> "run", mi |-> 1, ii |-> 1, sys |-> Undefined, contents |-> <<>>,
   parts |-> <<>>, fetches |-> <<>>, settled |-> 0, error |-> ""]

\* The keys a generation config object may hold. An object is a function
\* from the keys it has to their values; a key it lacks reads undefined.
ConfigKeys ==
  {"temperature", "maxOutputTokens", "topP", "thinking", "enable_thoughts",
   "thinking_budget", "maxInputTokens", "custom"}
EmptyConfig == [k \in {} |-> Undefined]

\* config[k]
Get(config, k) == IF k \in DOMAIN config THEN config[k] ELSE Undefined

\* config[k] = v
Set(config, k, v) == [x \in DOMAIN config \cup {k} |-> IF x = k THEN v ELSE config[x]]

\* x ??= d
NullishAssign(x, d) == IF x.t \in {"undefined", "null"} THEN d ELSE x

\* A mutant: the named fields win over the keys of the raw object.
SpreadUnder(named, raw) ==
  [k \in DOMAIN named \cup DOMAIN raw |-> IF k \in DOMAIN named THEN named[k] ELSE raw[k]]

\* {...named, ...raw}: every own key of raw, whatever its value, replaces
\* the key of named (lines 135-140).
Spread(named, raw) ==
  [k \in DOMAIN named \cup DOMAIN raw |-> IF k \in DOMAIN raw THEN raw[k] ELSE named[k]]

\* A mutant: the budget is set to 2048 whatever the caller supplied.
ReasoningFixedBudget(config) ==
  Set(Set(Set(config, "thinking", Bool(TRUE)), "enable_thoughts", Bool(TRUE)),
      "thinking_budget", Num(2048))

\* The three assignments under include_reasoning === true (lines 147-151).
Reasoning(config) ==
  Set(Set(Set(config, "thinking", Bool(TRUE)), "enable_thoughts", Bool(TRUE)),
      "thinking_budget", NullishAssign(Get(config, "thinking_budget"), Num(2048)))

\* generationConfig of mapRequest (lines 135-154).
BuildGenerationConfig(body) ==
  LET raw == Coalesce(Prop(body, "generationConfig"), [t |-> "object", v |-> EmptyConfig]).v
      named == [temperature |-> Prop(body, "temperature"),
                maxOutputTokens |-> Prop(body, "max_tokens"),
                topP |-> Prop(body, "top_p")]
      base == Spread(named, raw)
      reasoning == IF Prop(body, "include_reasoning") = Bool(TRUE) THEN Reasoning(base)
                   ELSE base
  IN Set(reasoning, "maxInputTokens",
         NullishAssign(Get(reasoning, "maxInputTokens"), Num(1000000)))

\* The registerTool calls of mapRequest (lines 185-207), in order.
RegisterCustom(functions, builtIn) ==
  IF Falsy(functions) \/ Len(functions.v) = 0 THEN <<>>
  ELSE LET custom == CustomFunctions(functions.v, builtIn)
       IN [i \in 1..Len(custom) |->
             [name |-> custom[i].name,
              title |-> custom[i].name,
              description |-> Coalesce(Prop(custom[i], "description"), Str(<<>>))]]

\* The rest of mapRequest after the loop over the messages (lines 134-209):
\* {geminiReq, tools}.
FinishMap(body, st) ==
  LET builtInTools == FindBuiltInTools(Prop(body, "functions"))
      hasGoogleSearch == Cardinality(builtInTools) > 0
      geminiTools == IF hasGoogleSearch THEN <<"googleSearch">> ELSE <<>>
  IN [geminiReq |->
        [model |-> Prop(body, "model"),
         contents |-> st.contents,
         generationConfig |-> BuildGenerationConfig(body),
         stream |-> Prop(body, "stream"),
         systemInstruction |-> st.sys,
         tools |-> IF Len(geminiTools) > 0 THEN Arr(geminiTools) ELSE Undefined],
      tools |-> [t |-> "ToolRegistry",
                 v |-> RegisterCustom(Prop(body, "functions"), builtInTools)]]

(***************************************************************************)
(* Specification SpecMap: one call of mapRequest, its fetches resolved or  *)
(* rejected by the environment                                             *)
(***************************************************************************)
\* Bounds: the tokens of a data: URL after its scheme, and the declared
\* functions of a body.
MaxUrlTokens == 4
MaxFunctions == 2

\* Bound: the keys of a raw generationConfig object.
MaxRawKeys == 2

\* What fetchAndEncode resolves with for url.
Fetched(url) == GInline(<<"image/png">>, Base64(<<"bytes of">> \o url))

\* The messages fetchAndEncode rejects with.
FetchErrors ==
  {"Failed to fetch image (HTTP status)", "Image too large (declared)",
   "Image too large (during download)", "Image fetch timed out",
   "fetch failed"}

\* Content items of a validated body.
MapItems ==
  {TextItem(<<"t">>), TextItem(<<>>), Item(Name("audio"), Undefined, Undefined),
   ImageItem(HttpsUrl), ImageItem(OtherHttpsUrl), ImageItem(DataUrl)}

\* The image items among them.
MapImages == {ImageItem(HttpsUrl), ImageItem(OtherHttpsUrl), ImageItem(DataUrl)}

MapRoles == {Name("system"), Name("user"), Name("assistant")}

MapPlainMsgs ==
  {Message(r, c) : r \in MapRoles, c \in {Str(<<>>), Str(<<"h">>), Arr(<<>>)}}
MapArrayMsgs == {Message(r, Arr(<<>>)) : r \in MapRoles}

UrlTokens == {"image/png", "charset=utf-8", ";", "base64", ",", "%", "%20"}

FunctionNames ==
  {<<"google_search">>, <<"Google_Search">>, <<"SEARCH">>, <<"get_weather">>,
   <<"searcher">>}
Function(name) == [t |-> "object", name |-> Str(name)]

\* What a key of a raw generationConfig object may hold, and what the named
\* fields and include_reasoning may hold.
RawValues == {Undefined, Null, Num(7), Bool(FALSE)}
NamedValues == {Undefined, Num(1)}
ReasoningValues == {Undefined, Bool(FALSE), Bool(TRUE)}

ChatBody(messages) == [t |-> "object", messages |-> Arr(messages)]
OneUserMessage == <<Message(Name("user"), Str(<<"h">>))>>

MapInit ==
  /\ \/ \E ks \in Shapes(MaxSize) :
          /\ Len(ks) >= 1
          /\ \E heads \in [1..Len(ks) -> MapPlainMsgs] :
               /\ HeadsFit(ks, heads, MapPlainMsgs, MapArrayMsgs)
               /\ \E items \in [1..Sum(ks) -> MapItems] :
                    mBody = ChatBody(Assemble(ks, heads, items))
     \/ \E r1, r2 \in MapRoles, a, b \in MapImages :
          mBody = ChatBody(<<Message(r1, Arr(<<a>>)), Message(r2, Arr(<<b>>))>>)
     \/ \E url \in SeqsUpTo(UrlTokens, MaxUrlTokens), scheme \in {"data:", "DATA:"} :
          mBody = ChatBody(<<Message(Name("user"), Arr(<<ImageItem(<<scheme>> \o url)>>))>>)
     \/ \E keys \in SUBSET ConfigKeys :
          /\ Cardinality(keys) <= MaxRawKeys
          /\ \E raw \in [keys -> RawValues], hasRaw \in BOOLEAN,
                temperature, max_tokens, top_p \in NamedValues,
                include_reasoning \in ReasoningValues :
               /\ hasRaw \/ keys = {}
               /\ mBody = [t |-> "object", messages |-> Arr(OneUserMessage),
                           temperature |-> temperature, max_tokens |-> max_tokens,
                           top_p |-> top_p, include_reasoning |-> include_reasoning,
                           generationConfig |->
                             IF hasRaw THEN [t |-> "object", v |-> raw] ELSE Undefined]
     \/ \E names \in SeqsUpTo(FunctionNames, MaxFunctions) :
          mBody = [t |-> "object", messages |-> Arr(OneUserMessage),
                   functions |-> Arr([i \in 1..Len(names) |-> Function(names[i])])]
  /\ mapCall = [MapStart EXCEPT !.pc = "idle"]
  /\ mapped = Undefined
  /\ StreamIdle /\ ValidateIdle /\ RespIdle /\ FetchIdle /\ ServerIdle /\ InstancesIdle

\* Where a run of the synchronous code leaves the call: at an await, failed,
\* or resolved with the MappedRequest.
Settle(body, st) ==
  IF st.pc = "built" THEN [call |-> [st EXCEPT !.pc = "done"], mapped |-> FinishMap(body, st)]
  ELSE [call |-> st, mapped |-> Undefined]

\* mapRequest(body) is called and runs to its first await of fetchAndEncode
\* or to its end.
MapRequestCall ==
  /\ mapCall.pc = "idle"
  /\ LET r == Settle(mBody, Advance(Prop(mBody, "messages").v, MapStart))
     IN mapCall' = r.call /\ mapped' = r.mapped
  /\ UNCHANGED <<mBody, notMap>>

\* The awaited fetchAndEncode resolves; the loops go on.
FetchResolve ==
  /\ mapCall.pc = "fetching"
  /\ LET url == mapCall.fetches[Len(mapCall.fetches)]
         st == [mapCall EXCEPT !.pc = "run",
                               !.settled = mapCall.settled + 1,
                               !.parts = Append(mapCall.parts, Fetched(url)),
                               !.ii = mapCall.ii + 1]
         r == Settle(mBody, Advance(Prop(mBody, "messages").v, st))
     IN mapCall' = r.call /\ mapped' = r.mapped
  /\ UNCHANGED <<mBody, notMap>>

\* The awaited fetchAndEncode rejects; mapRequest rejects with its error.
FetchReject ==
  /\ mapCall.pc = "fetching"
  /\ \E err \in FetchErrors :
       mapCall' = [mapCall EXCEPT !.pc = "failed", !.error = err,
                                  !.settled = mapCall.settled + 1]
  /\ UNCHANGED <<mBody, mapped, notMap>>

MapNext == MapRequestCall \/ FetchResolve \/ FetchReject

SpecMap == MapInit /\ [][MapNext]_vars

\* The image_url items of the messages mapRequest expands (the non-system
\* ones), in order, as URLs.
RECURSIVE ItemUrls(_)
ItemUrls(items) ==
  IF items = <<>> THEN <<>>
  ELSE (IF Prop(Head(items), "type") = Name("image_url")
        THEN <<Prop(Prop(Head(items), "image_url"), "url").v>> ELSE <<>>)
       \o ItemUrls(Tail(items))

RECURSIVE ImageUrls(_)
ImageUrls(msgs) ==
  IF msgs = <<>> THEN <<>>
  ELSE (IF Prop(Head(msgs), "role") # Name("system") /\ IsArray(Prop(Head(msgs), "content"))
        THEN ItemUrls(Prop(Head(msgs), "content").v) ELSE <<>>)
       \o ImageUrls(Tail(msgs))

IsHttpsUrl(url) == Len(url) >= 1 /\ Head(url) = "https://"

\* The index after the (";" parameter) pairs that start at i.
RECURSIVE ParamsEnd(_, _)
ParamsEnd(toks, i) ==
  IF i + 1 <= Len(toks) /\ toks[i] = ";" /\ toks[i + 1] \in {"charset=utf-8", "base64"}
  THEN ParamsEnd(toks, i + 2) ELSE i

\* A data: URL as RFC 2397 writes it, data:[<mediatype>][;base64],<data>
\* where <mediatype> is an optional type followed by ";"-led parameters and
\* <data> has no malformed escape.
IsDataUrl(url) ==
  /\ Len(url) >= 1 /\ LowerToken(Head(url)) = "data:"
  /\ LET rest == Tail(url)
         c == ParamsEnd(rest, IF Len(rest) >= 1 /\ rest[1] = "image/png" THEN 2 ELSE 1)
     IN c <= Len(rest) /\ rest[c] = "," /\ ~Malformed(SubSeq(rest, c + 1, Len(rest)))

RECURSIVE Keep(_)
Keep(urls) ==
  IF urls = <<>> THEN <<>>
  ELSE (IF IsHttpsUrl(Head(urls)) THEN <<Head(urls)>> ELSE <<>>) \o Keep(Tail(urls))

RECURSIVE InlineCount(_)
InlineCount(contents) ==
  IF contents = <<>> THEN 0
  ELSE Cardinality({i \in 1..Len(Head(contents).parts) :
                      Head(contents).parts[i].inlineData # Undefined})
       + InlineCount(Tail(contents))

\* C3: no data: URL is ever given to fetchAndEncode, and when every image
\* item of the expanded messages holds a data: URL or an https:// URL,
\* mapRequest fails only with a fetch error and, when it resolves, every
\* image item has become an inlineData part with exactly one fetchAndEncode
\* call per https:// item.
C3_DataUrlNeverFetched ==
  LET urls == ImageUrls(Prop(mBody, "messages").v) IN
  mapCall.pc # "idle" =>
    /\ \A i \in 1..Len(mapCall.fetches) : ~IsDataUrl(mapCall.fetches[i])
    /\ (\A i \in 1..Len(urls) : IsDataUrl(urls[i]) \/ IsHttpsUrl(urls[i])) =>
         /\ mapCall.pc = "failed" => mapCall.error \in FetchErrors
         /\ mapCall.pc = "done" =>
              /\ mapCall.fetches = Keep(urls)
              /\ InlineCount(mapped.geminiReq.contents) = Len(urls)

DeclaredNames(body) ==
  IF Falsy(Prop(body, "functions")) THEN <<>>
  ELSE [i \in 1..Len(Prop(body, "functions").v) |-> Prop(body, "functions").v[i].name.v]

Reserved(name) == ToLowerCase(name) \in GOOGLE_SEARCH_TOOL_NAMES

\* C4: the provider request's tools is exactly one googleSearch entry when
\* some declared function name is reserved (compared in lower case) and is
\* absent otherwise, and the names registered as custom tools are exactly
\* the declared names that are not reserved.
C4_BuiltInAndCustomTools ==
  LET names == DeclaredNames(mBody)
      declared == {names[i] : i \in 1..Len(names)}
      reg == mapped.tools.v
  IN mapCall.pc = "done" =>
       /\ mapped.geminiReq.tools =
            IF \E n \in declared : Reserved(n) THEN Arr(<<"googleSearch">>) ELSE Undefined
       /\ {reg[i].name.v : i \in 1..Len(reg)} = {n \in declared : ~Reserved(n)}

\* A reserved name in mixed case declared beside a custom function.
C4_Witness ==
  /\ mapCall.pc = "done"
  /\ DeclaredNames(mBody) = <<<<"Google_Search">>, <<"get_weather">>>>
  /\ mapped.geminiReq.tools = Arr(<<"googleSearch">>)
  /\ Len(mapped.tools.v) = 1

(***************************************************************************)
(* Response mapper: mapResponse (mapper.ts)                                *)
(***************************************************************************)
\* A provider response. candidates is undefined or an array; text is the
\* SDK's text accessor (undefined when the candidate has no text part).
GeminiResponse(candidates, text, usageMetadata, promptFeedback) ==
  [candidates |-> candidates, text |-> text, modelVersion |-> Undefined,
   usageMetadata |-> usageMetadata, promptFeedback |-> promptFeedback]

Object(fields) == [t |-> "object", v |-> fields]

\* getModel(): the configured model name.
GetModel == Name("model")

\* gResp?.promptFeedback?.blockReason
BlockReason(g) ==
  IF g.promptFeedback.t = "object" THEN g.promptFeedback.v.blockReason ELSE Undefined

\* mapResponse(gResp). Date.now() is the token "now". The error object of
\* the no-candidates branch has a message and nothing else.
MapResponse(g) ==
  LET usage == Coalesce(g.usageMetadata, Object(NoUsageFields)).v
      hasError == g.candidates.t = "undefined"
  IN IF hasError
     THEN [error |-> [message |-> Coalesce(BlockReason(g), Name("No candidates returned."))]]
     ELSE [id |-> <<"chatcmpl-", "now">>,
           object |-> "chat.completion",
           created |-> "now",
           model |-> Coalesce(g.modelVersion, GetModel),
           choices |-> <<[index |-> 0,
                          message |-> [role |-> "assistant",
                                       content |-> Coalesce(g.text, Str(<<>>))],
                          finish_reason |-> "stop"]>>,
           usage |-> MapUsage(usage)]

(***************************************************************************)
(* Specification SpecResp: mapResponse and mapChunk applied to a provider  *)
(* response and to a stream chunk carrying the same usage metadata         *)
(***************************************************************************)
\* Bound: the largest token count a usage field reports.
MaxTok == 1

UsageFieldNames == DOMAIN NoUsageFields
TokenValues == {Undefined, Null} \cup {Num(n) : n \in 0..MaxTok}

Candidate == [t |-> "object"]
CandidateChoices == {Undefined, Arr(<<>>), Arr(<<Candidate>>)}

RespInit ==
  /\ \E c \in CandidateChoices :
       \/ gResp = GeminiResponse(c, Undefined, Undefined, Undefined)
       \/ gResp = GeminiResponse(c, Undefined, Undefined,
                                 Object([blockReason |-> Name("SAFETY")]))
       \/ \E u \in [UsageFieldNames -> TokenValues] :
            gResp = GeminiResponse(c, Str(<<"h">>), Object(u), Undefined)
  /\ oResp = Undefined /\ oChunk = Undefined
  /\ StreamIdle /\ ValidateIdle /\ MapIdle /\ FetchIdle /\ ServerIdle /\ InstancesIdle

\* mapResponse(gResp)
MapResponseCall ==
  /\ gResp # Null /\ oResp = Undefined
  /\ oResp' = MapResponse(gResp)
  /\ UNCHANGED <<gResp, oChunk, notResp>>

\* mapChunk(chunk) on a fresh stream mapper, for a chunk without parts that
\* carries the usage metadata of gResp.
MapChunkUsageCall ==
  /\ gResp # Null /\ oChunk = Undefined
  /\ oChunk' = MapChunk([parts |-> <<>>, usage |-> gResp.usageMetadata], FALSE).result
  /\ UNCHANGED <<gResp, oResp, notResp>>

RespNext == MapResponseCall \/ MapChunkUsageCall

SpecResp == RespInit /\ [][RespNext]_vars

\* The count the usage mapping is to report for a pair of provider fields.
ExpectedCount(u, count, tokens) ==
  IF u[count].t = "number" THEN u[count]
  ELSE IF u[tokens].t = "number" THEN u[tokens] ELSE Num(0)

ExpectedUsage(u) ==
  [prompt_tokens |-> ExpectedCount(u, "promptTokenCount", "promptTokens"),
   completion_tokens |-> ExpectedCount(u, "candidatesTokenCount", "candidatesTokens"),
   total_tokens |-> ExpectedCount(u, "totalTokenCount", "totalTokens")]

\* C6: for a provider response with candidates, and for a stream chunk that
\* carries usage metadata, the mapped usage has prompt_tokens,
\* completion_tokens and total_tokens each set to a number: the *TokenCount
\* field when present, else the *Tokens field when present, else 0.
C6_UsageAlwaysNumbers ==
  /\ (oResp # Undefined /\ gResp.candidates # Undefined) =>
       /\ oResp.usage = ExpectedUsage(Coalesce(gResp.usageMetadata, Object(NoUsageFields)).v)
       /\ \A k \in DOMAIN oResp.usage : oResp.usage[k].t = "number"
  /\ (oChunk # Undefined /\ gResp.usageMetadata # Undefined) =>
       /\ oChunk.usage.t = "object"
       /\ oChunk.usage.v = ExpectedUsage(gResp.usageMetadata.v)
       /\ \A k \in DOMAIN oChunk.usage.v : oChunk.usage.v[k].t = "number"

\* C6 witness: both mappers have run on usage metadata that reports the
\* prompt count under the *Tokens name only, the total under both names,
\* and no completion count at all.
C6_Witness ==
  /\ oResp # Undefined /\ oChunk # Undefined
  /\ gResp.candidates = Arr(<<Candidate>>)
  /\ gResp.usageMetadata # Undefined
  /\ gResp.usageMetadata.v =
       [NoUsageFields EXCEPT !.promptTokens = Num(1), !.totalTokenCount = Num(1),
                             !.totalTokens = Num(0)]
  /\ oResp.usage = [prompt_tokens |-> Num(1), completion_tokens |-> Num(0),
                    total_tokens |-> Num(1)]
  /\ oChunk.usage.v = oResp.usage

(***************************************************************************)
(* Specification SpecRoundTrip: a single string message mapped by          *)
(* mapRequest, echoed by the provider, and mapped back by mapResponse      *)
(***************************************************************************)
\* Bound: the tokens of the message text.
MaxText == 3
TextTokens == {"a", "b", " "}

RoundTripInit ==
  /\ \E role \in MapRoles, text \in SeqsUpTo(TextTokens, MaxText) :
       mBody = ChatBody(<<Message(role, Str(text))>>)
  /\ mapCall = [MapStart EXCEPT !.pc = "idle"]
  /\ mapped = Undefined
  /\ StreamIdle /\ ValidateIdle /\ RespIdle /\ FetchIdle /\ ServerIdle /\ InstancesIdle

\* The text parts of the mapped contents, in order.
RECURSIVE TextsOfParts(_)
TextsOfParts(parts) ==
  IF parts = <<>> THEN <<>>
  ELSE (IF IsString(Head(parts).text) THEN <<Head(parts).text.v>> ELSE <<>>)
       \o TextsOfParts(Tail(parts))

RECURSIVE TextsOfContents(_)
TextsOfContents(contents) ==
  IF contents = <<>> THEN <<>>
  ELSE TextsOfParts(Head(contents).parts) \o TextsOfContents(Tail(contents))

RECURSIVE Concat(_)
Concat(strings) == IF strings = <<>> THEN <<>> ELSE Head(strings) \o Concat(Tail(strings))

\* The provider answers with the text of the contents it was sent; the text
\* accessor of a response without a text part reads undefined.
ProviderEcho ==
  /\ mapCall.pc = "done" /\ gResp = Null
  /\ LET texts == TextsOfContents(mapped.geminiReq.contents)
     IN gResp' = GeminiResponse(Arr(<<Candidate>>),
                                IF texts = <<>> THEN Undefined ELSE Str(Concat(texts)),
                                Undefined, Undefined)
  /\ UNCHANGED <<oResp, oChunk, notResp>>

RoundTripNext == MapRequestCall \/ ProviderEcho \/ MapResponseCall

SpecRoundTrip == RoundTripInit /\ [][RoundTripNext]_vars

TheMessage == Prop(mBody, "messages").v[1]

RoundTrips ==
  /\ "choices" \in DOMAIN oResp
  /\ Len(oResp.choices) = 1
  /\ oResp.choices[1].message = [role |-> "assistant", content |-> Prop(TheMessage, "content")]

\* C7 as stated: for a single message with string content t, of any allowed
\* role, the response mapped from the provider's echo has one choice, with
\* role assistant and content t.
C7_RoundTripAnyRole == oResp # Undefined => RoundTrips

\* C7 amended: the same, for a single message of role user or assistant.
C7_RoundTripConversationRoles ==
  (oResp # Undefined /\ Prop(TheMessage, "role") \in {Name("user"), Name("assistant")})
    => RoundTrips

\* C7 witness: an assistant message "ab" has gone through the round trip.
C7_Witness ==
  /\ oResp # Undefined
  /\ TheMessage = Message(Name("assistant"), Str(<<"a", "b">>))
  /\ mapped.geminiReq.contents = <<[role |-> "model", parts |-> <<GText(<<"a", "b">>)>>]>>
  /\ oResp.choices[1].message.content = Str(<<"a", "b">>)

(***************************************************************************)
(* Remote image fetcher: fetchAndEncode (remoteimage.ts)                   *)
(***************************************************************************)
\* The byte ceiling, process.env.MAX_IMAGE_SIZE_BYTES: a small configured
\* value, so that a few short chunks cross it.
MAX_IMAGE_SIZE_BYTES == 3

DigitTokens == {"0", "2", "4"}
DigitValue(d) == CASE d = "0" -> 0 [] d = "2" -> 2 [] d = "4" -> 4

\* The value of the longest prefix of decimal digits, -1 when there is none.
RECURSIVE LeadingDigits(_, _, _)
LeadingDigits(toks, i, acc) ==
  IF i > Len(toks) \/ toks[i] \notin DigitTokens THEN acc
  ELSE LeadingDigits(toks, i + 1, (IF acc = -1 THEN 0 ELSE acc * 10) + DigitValue(toks[i]))

NaN == [t |-> "NaN"]

\* parseInt(s, 10) of a header value: a string of one-character tokens.
ParseInt(s) ==
  LET n == LeadingDigits(s.v, 1, -1) IN IF n = -1 THEN NaN ELSE Num(n)

\* a > b for a number a that may be NaN.
GreaterThan(a, b) == a.t = "number" /\ a.v > b

\* An HTTP response as fetchAndEncode reads it: res.ok, the content-length
\* and content-type headers (null when absent), and whether res.body is
\* set.
HttpResponse(status, contentLength, contentType, hasBody) ==
  [ok |-> status \in 200..299, status |-> status, contentLength |-> contentLength,
   contentType |-> contentType, hasBody |-> hasBody]

Resolved(st, contentType) ==
  [st EXCEPT !.pc = "resolved",
             !.result = [mimeType |-> IF Falsy(contentType) THEN Name("image/png")
                                                             ELSE contentType,
                         data |-> Base64(<<"bytes">>)]]
\* An error object: its name and its message.
ErrorObject(name, message) == [name |-> name, message |-> message]
Error(message) == ErrorObject("Error", message)

\* What the awaited fetch or body read rejects with once the signal is
\* aborted, and what fetch rejects with when the transport fails.
AbortError == ErrorObject("AbortError", "This operation was aborted")
TransportError == ErrorObject("TypeError", "fetch failed")

\* A mutant: every caught error is reported as a timeout.
CatchAll(err) == Error("Image fetch timed out")

\* The catch block (lines 99-104): an AbortError is replaced by the
\* timeout error, any other error is thrown again as it is.
Catch(err) == IF err.name = "AbortError" THEN Error("Image fetch timed out") ELSE err

\* err is thrown inside the try block: the call rejects with what the catch
\* block throws.
Rejected(st, err) == [st EXCEPT !.pc = "rejected", !.error = Catch(err).message]

\* The checks between the response and the body (lines 46-69).
OnResponse(st, r) ==
  LET got == [st EXCEPT !.status = Num(r.status)] IN
  IF ~r.ok THEN Rejected(got, Error("Failed to fetch image (HTTP status)"))
  ELSE IF ~Falsy(r.contentLength)
          /\ GreaterThan(ParseInt(r.contentLength), MAX_IMAGE_SIZE_BYTES)
  THEN Rejected(got, Error("Image too large (declared)"))
  ELSE IF r.hasBody THEN [got EXCEPT !.pc = "reading"]
  ELSE [got EXCEPT !.pc = "buffering"]

\* A mutant: the chunk is buffered before the ceiling is checked.
ReadChunkPushFirst(st, size) ==
  LET read == [st EXCEPT !.totalSize = st.totalSize + size,
                         !.sizes = Append(st.sizes, size),
                         !.chunks = Append(st.chunks, size)]
  IN IF read.totalSize > MAX_IMAGE_SIZE_BYTES
     THEN Rejected([read EXCEPT !.aborted = TRUE],
                   Error("Image too large (during download)"))
     ELSE read

\* One turn of the loop over res.body (lines 70-80), for a chunk of size
\* bytes: the ceiling is checked before the chunk is pushed, and crossing
\* it aborts the controller before the error is thrown.
ReadChunk(st, size) ==
  LET read == [st EXCEPT !.totalSize = st.totalSize + size,
                         !.sizes = Append(st.sizes, size)]
  IN IF read.totalSize > MAX_IMAGE_SIZE_BYTES
     THEN Rejected([read EXCEPT !.aborted = TRUE],
                   Error("Image too large (during download)"))
     ELSE [read EXCEPT !.chunks = Append(st.chunks, size)]

\* The fallback when res.body is not set (lines 83-92), for a buffer of
\* size bytes.
OnArrayBuffer(st, size, contentType) ==
  IF size > MAX_IMAGE_SIZE_BYTES THEN Rejected(st, Error("Image too large (declared)"))
  ELSE Resolved([st EXCEPT !.totalSize = size], contentType)

(***************************************************************************)
(* Specification SpecFetch: one call of fetchAndEncode against a remote    *)
(* host that answers, sends body chunks, fails or stalls                   *)
(***************************************************************************)
\* Bounds: the characters of a Content-Length header, the body chunks the
\* host sends, and the bytes of one chunk.
MaxHeaderLen == 2
MaxBodyChunks == 3
MaxChunkBytes == 2

HeaderTokens == DigitTokens \cup {"x"}
ContentLengths == {Null} \cup {Str(s) : s \in SeqsUpTo(HeaderTokens, MaxHeaderLen)}
ContentTypes == {Null, Name("image/jpeg")}
Statuses == {200, 404}

FetchInit ==
  /\ \E status \in Statuses, len \in ContentLengths, type \in ContentTypes,
        hasBody \in BOOLEAN :
       fetchRes = HttpResponse(status, len, type, hasBody)
  /\ fetchCall = [pc |-> "idle", status |-> Undefined, totalSize |-> 0, chunks |-> <<>>,
                  sizes |-> <<>>, result |-> Undefined, error |-> "",
                  aborted |-> FALSE, timerFired |-> FALSE]
  /\ StreamIdle /\ ValidateIdle /\ MapIdle /\ RespIdle /\ ServerIdle /\ InstancesIdle

\* fetchAndEncode(url) is called: the timer is set and fetch is awaited.
FetchAndEncodeCall ==
  /\ fetchCall.pc = "idle"
  /\ fetchCall' = [fetchCall EXCEPT !.pc = "awaiting"]
  /\ UNCHANGED <<fetchRes, notFetch>>

\* The awaited fetch resolves with the response.
ResponseArrives ==
  /\ fetchCall.pc = "awaiting"
  /\ fetchCall' = OnResponse(fetchCall, fetchRes)
  /\ UNCHANGED <<fetchRes, notFetch>>

\* The awaited fetch rejects (no connection).
FetchFails ==
  /\ fetchCall.pc = "awaiting"
  /\ fetchCall' = Rejected(fetchCall, TransportError)
  /\ UNCHANGED <<fetchRes, notFetch>>

\* The body yields its next chunk.
BodyChunk ==
  /\ fetchCall.pc = "reading"
  /\ Len(fetchCall.sizes) < MaxBodyChunks
  /\ \E size \in 0..MaxChunkBytes : fetchCall' = ReadChunk(fetchCall, size)
  /\ UNCHANGED <<fetchRes, notFetch>>

\* The body ends: the chunks are concatenated and encoded (lines 95-98).
BodyEnd ==
  /\ fetchCall.pc = "reading"
  /\ fetchCall' = Resolved(fetchCall, fetchRes.contentType)
  /\ UNCHANGED <<fetchRes, notFetch>>

\* res.arrayBuffer() resolves.
ArrayBufferArrives ==
  /\ fetchCall.pc = "buffering"
  /\ \E size \in 0..(MAX_IMAGE_SIZE_BYTES + 1) :
       fetchCall' = OnArrayBuffer(fetchCall, size, fetchRes.contentType)
  /\ UNCHANGED <<fetchRes, notFetch>>

\* The timer fires while something is awaited (line 37): the controller is
\* aborted and what is awaited rejects with an AbortError.
FetchTimeout ==
  /\ fetchCall.pc \in {"awaiting", "reading", "buffering"}
  /\ fetchCall' = Rejected([fetchCall EXCEPT !.aborted = TRUE, !.timerFired = TRUE],
                           AbortError)
  /\ UNCHANGED <<fetchRes, notFetch>>

FetchNext ==
  \/ FetchAndEncodeCall \/ ResponseArrives \/ FetchFails \/ BodyChunk \/ BodyEnd
  \/ ArrayBufferArrives \/ FetchTimeout

SpecFetch == FetchInit /\ [][FetchNext]_vars

RECURSIVE Total(_)
Total(sizes) == IF sizes = <<>> THEN 0 ELSE Head(sizes) + Total(Tail(sizes))

AllButLast(s) == SubSeq(s, 1, Len(s) - 1)

\* A Content-Length header that declares more than the ceiling.
DeclaresTooMuch(len) ==
  /\ len.t = "string" /\ len.v # <<>>
  /\ \A i \in 1..Len(len.v) : len.v[i] \in DigitTokens
  /\ LeadingDigits(len.v, 1, -1) > MAX_IMAGE_SIZE_BYTES

\* C5: once a 2xx response has arrived whose Content-Length declares more
\* than the ceiling, the fetch has failed with the size error and no body
\* chunk has been read; with no declared length, as soon as the chunks read
\* total more than the ceiling the fetch has failed with the 'during
\* download' error, the chunk that crossed the ceiling is the last one read,
\* and it is not buffered.
C5_SizeCeilings ==
  /\ (fetchCall.status # Undefined /\ fetchRes.ok /\ DeclaresTooMuch(fetchRes.contentLength)) =>
       /\ fetchCall.pc = "rejected"
       /\ fetchCall.error = "Image too large (declared)"
       /\ fetchCall.sizes = <<>>
  /\ (fetchRes.contentLength = Null /\ Total(fetchCall.sizes) > MAX_IMAGE_SIZE_BYTES) =>
       /\ fetchCall.pc = "rejected"
       /\ fetchCall.error = "Image too large (during download)"
       /\ Total(AllButLast(fetchCall.sizes)) <= MAX_IMAGE_SIZE_BYTES
       /\ fetchCall.chunks = AllButLast(fetchCall.sizes)

\* C5 witness: with no declared length, the third chunk read crossed the
\* ceiling and the fetch failed there.
C5_Witness ==
  /\ fetchRes.contentLength = Null
  /\ fetchCall.sizes = <<2, 1, 2>>
  /\ fetchCall.chunks = <<2, 1>>
  /\ fetchCall.pc = "rejected"
  /\ fetchCall.error = "Image too large (during download)"

(***************************************************************************)
(* HTTP handler: the createServer callback (server.ts)                     *)
(***************************************************************************)
\* if (v): true for true and for the other values that are not falsy.
Truthy(v) == v # Bool(FALSE) /\ ~Falsy(v)

\* JSON.stringify of an error response: a property whose value is
\* undefined is left out.
StringifyError(e) ==
  [error |-> [k \in {f \in DOMAIN e.error : e.error[f] # Undefined} |-> e.error[k]]]

\* JSON.stringify of what mapResponse returns; a chat response has no
\* undefined property.
StringifyResponse(m) == IF "error" \in DOMAIN m THEN StringifyError(m) ELSE m

\* JSON.stringify of a stream chunk: an undefined content or usage is left
\* out.
StringifyChunk(c) ==
  LET delta == IF c.delta.content = Undefined THEN [role |-> c.delta.role] ELSE c.delta
      base == [delta |-> delta, index |-> c.index, finish_reason |-> c.finish_reason]
  IN IF c.usage = Undefined THEN base ELSE base @@ [usage |-> c.usage.v]

Done == [data |-> "[DONE]"]

\* allowCors(res, reqOrigin)
AllowCors(r) == [r EXCEPT !.cors = TRUE]

\* res.writeHead throws ERR_HTTP_HEADERS_SENT once a head has been written.
HeadersSent(r) == r.heads # <<>>
WriteHead(r, status, contentType) ==
  [r EXCEPT !.heads = Append(r.heads, [status |-> status, contentType |-> contentType])]
End(r, body) == [r EXCEPT !.ended = TRUE, !.body = body]

\* sendError(res, statusCode, error): the response it leaves, and whether
\* its writeHead threw.
SendError(r, statusCode, error) ==
  IF HeadersSent(r) THEN [threw |-> TRUE, res |-> r]
  ELSE [threw |-> FALSE,
        res |-> End(WriteHead(r, statusCode, "application/json"), StringifyError(error))]

\* The handler returns after sendError, or its promise rejects with what
\* sendError threw.
AfterSendError(h, s) ==
  IF s.threw THEN [h EXCEPT !.pc = "rejected", !.error = "ERR_HTTP_HEADERS_SENT"]
  ELSE [h EXCEPT !.pc = "returned"]

\* A mutant: the catch block reports a fixed message.
ProxyErrorUnknown(message) == CreateError(Name("Unknown error"), Name("api_error"), Undefined)

\* The catch block of the handler (lines 147-151) for an error with message.
ProxyError(message) == CreateError(Name(message), Name("api_error"), Undefined)

\* createStreamMapper(): an object with the methods mapChunk and isThinking
\* around the closure variable; not itself a function.
CreateStreamMapper == [t |-> "object", wasThinking |-> FALSE]
Callable(x) == x.t = "function"

\* listModels()
ListModels == <<[id |-> "model", object |-> "model"]>>

\* { ...geminiReq, tools }
WithTools(m) == [m.geminiReq EXCEPT !.tools = m.tools]

Called(fn, arg) == [fn |-> fn, arg |-> arg]

\* tools?.length, for the tools of the request sendChat is given. The
\* ToolRegistry class comes from a package outside this repository: its
\* length property is undefined or, when hasLength, a positive number.
ToolsLength(tools, hasLength) ==
  IF IsNullish(tools) THEN Undefined
  ELSE IF IsArray(tools) THEN Num(Len(tools.v))
  ELSE IF hasLength THEN Num(1) ELSE Undefined

\* const config = tools?.length ? { ...generationConfig, tools } :
\* generationConfig  (sendChat line 115, sendChatStream line 132)
ClientConfig(req, hasLength) ==
  IF Truthy(ToolsLength(req.tools, hasLength))
  THEN Set(req.generationConfig, "tools", req.tools)
  ELSE req.generationConfig

\* generator.generateContent / generateContentStream is called with the
\* params sendChat / sendChatStream builds from req (lines 117-122, 134-139).
Generate(fn, req, hasLength) ==
  [fn |-> fn, contents |-> req.contents, config |-> ClientConfig(req, hasLength),
   systemInstruction |-> req.systemInstruction]

(***************************************************************************)
(* Specification SpecServer: one request from arrival to the end of its    *)
(* handler, with the fetches and the provider as the environment           *)
(***************************************************************************)
\* Bound: the messages of a request body.
MaxMessages == 2

Methods == {"OPTIONS", "GET", "POST"}
Urls == {"/health", "/v1/models", "/v1/chat/completions", "/other"}

\* The functions a chat body may declare.
SrvFunctions ==
  {<<>>, <<<<"get_weather">>>>, <<<<"google_search">>>>,
   <<<<"Google_Search">>, <<"get_weather">>>>}

SrvMessages ==
  {Null,
   Message(Name("tool"), Str(<<"h">>)),
   Message(Name("user"), Str(<<"h">>)),
   Message(Name("system"), Str(<<"h">>)),
   Message(Name("user"), Arr(<<ImageItem(HttpsUrl)>>))}

StreamBody(messages) ==
  [t |-> "object", messages |-> Arr(messages), stream |-> Bool(TRUE)]

Request(method, url, json, body) ==
  [method |-> method, url |-> url, json |-> json, body |-> body]

IsChat(r) == r.url = "/v1/chat/completions" /\ r.method = "POST"

\* The upstream chunks and provider responses the environment chooses from.
SrvChunks == {[parts |-> <<p>>, usage |-> Undefined] : p \in PartKinds}
SrvResponses ==
  {GeminiResponse(Undefined, Undefined, Undefined, Undefined),
   GeminiResponse(Undefined, Undefined, Undefined, Object([blockReason |-> Name("SAFETY")])),
   GeminiResponse(Arr(<<Candidate>>), Str(<<"h">>), Object(SampleUsage), Undefined),
   GeminiResponse(Arr(<<Candidate>>), Undefined, Undefined, Undefined)}

ServerInit ==
  /\ \/ \E method \in Methods, url \in Urls :
          request = Request(method, url, "none", Undefined)
     \/ request = Request("POST", "/v1/chat/completions", "malformed", Undefined)
     \/ \E body \in {Null, [t |-> "object"]} :
          request = Request("POST", "/v1/chat/completions", "ok", body)
     \/ \E messages \in SeqsUpTo(SrvMessages, MaxMessages) :
          \/ request = Request("POST", "/v1/chat/completions", "ok", ChatBody(messages))
          \/ request = Request("POST", "/v1/chat/completions", "ok", StreamBody(messages))
     \/ \E names \in SrvFunctions, stream \in BOOLEAN :
          request = Request("POST", "/v1/chat/completions", "ok",
                            [t |-> "object", messages |-> Arr(OneUserMessage),
                             stream |-> Bool(stream),
                             functions |-> Arr([i \in 1..Len(names) |-> Function(names[i])])])
  /\ (IsChat(request) => request.json # "none")
  /\ handler = [pc |-> "start", mapper |-> Undefined, calls |-> <<>>, upstream |-> <<>>,
                upstreamFailed |-> FALSE, error |-> "",
                generate |-> <<>>]
  /\ res = [cors |-> FALSE, heads |-> <<>>, events |-> <<>>, ended |-> FALSE,
            body |-> Undefined]
  /\ StreamIdle /\ ValidateIdle /\ MapIdle /\ RespIdle /\ FetchIdle /\ InstancesIdle

Reply(status, body) ==
  /\ res' = End(WriteHead(AllowCors(res), status, "application/json"), body)
  /\ handler' = [handler EXCEPT !.pc = "returned"]
  /\ UNCHANGED mapVars

\* The request arrives: the handler runs up to its first await that is not
\* settled by then (the mapRequest call), or to its end (lines 63-118,
\* 156-162).
HandleRequest ==
  /\ handler.pc = "start"
  /\ IF request.method = "OPTIONS"
     THEN /\ res' = [WriteHead(AllowCors(res), 204, "none") EXCEPT !.ended = TRUE]
          /\ handler' = [handler EXCEPT !.pc = "returned"]
          /\ UNCHANGED mapVars
     ELSE IF request.url = "/health" THEN Reply(200, [status |-> "ok"])
     ELSE IF request.url = "/v1/models" THEN Reply(200, [data |-> ListModels])
     ELSE IF ~IsChat(request)
     THEN Reply(404, StringifyError(CreateError(Name("Unknown endpoint"),
                                                Name("invalid_request_error"),
                                                Name("unknown_url"))))
     ELSE IF request.json = "malformed"
     THEN Reply(400, StringifyError(CreateError(Name("Invalid JSON in request body"),
                                                Name("invalid_request_error"),
                                                Name("invalid_json"))))
     ELSE LET validation == ValidateChatRequest(request.body) IN
       IF validation.kind = "throw"
       THEN \* validateChatRequest is called outside any try: the handler's
            \* promise rejects and nothing is written
            /\ handler' = [handler EXCEPT !.pc = "rejected", !.error = validation.name]
            /\ res' = AllowCors(res)
            /\ UNCHANGED mapVars
       ELSE IF validation.kind = "invalid"
       THEN Reply(400, StringifyError(validation.error))
       ELSE LET r == Settle(request.body,
                            Advance(Prop(request.body, "messages").v, MapStart))
            IN /\ mBody' = request.body
               /\ mapCall' = r.call
               /\ mapped' = r.mapped
               /\ handler' = [handler EXCEPT
                    !.pc = "mapping",
                    !.calls = Append(handler.calls, Called("mapRequest", request.body))]
               /\ res' = AllowCors(res)
  /\ UNCHANGED <<request, notServer>>

\* mapRequest has resolved: the stream branch writes the head, creates the
\* stream mapper and calls sendChatStream; the other branch calls sendChat
\* (lines 118-132, 140).
Dispatch ==
  /\ handler.pc = "mapping" /\ mapCall.pc = "done"
  /\ \E hasLength \in BOOLEAN :
       IF Truthy(Prop(mBody, "stream"))
       THEN /\ res' = WriteHead(res, 200, "text/event-stream")
            /\ handler' = [handler EXCEPT
                 !.pc = "streaming",
                 !.mapper = CreateStreamMapper,
                 !.calls = Append(handler.calls, Called("sendChatStream", WithTools(mapped))),
                 !.generate = Append(handler.generate,
                                     Generate("generateContentStream", WithTools(mapped),
                                              hasLength))]
       ELSE /\ res' = res
            /\ handler' = [handler EXCEPT
                 !.pc = "awaitChat",
                 !.calls = Append(handler.calls, Called("sendChat", WithTools(mapped))),
                 !.generate = Append(handler.generate,
                                     Generate("generateContent", WithTools(mapped),
                                              hasLength))]
  /\ UNCHANGED <<request, mapVars, notServer>>

\* mapRequest has rejected: the catch block answers 500.
MapFailed ==
  /\ handler.pc = "mapping" /\ mapCall.pc = "failed"
  /\ LET s == SendError(res, 500, ProxyError(mapCall.error))
     IN res' = s.res /\ handler' = AfterSendError(handler, s)
  /\ UNCHANGED <<request, mapVars, notServer>>

\* The upstream yields a chunk: const mapped = mapChunk(chunk) calls the
\* stream mapper object itself, which throws a TypeError when the object is
\* not a function; the catch block then calls sendError (lines 132-135,
\* 147-151).
UpstreamChunk ==
  /\ handler.pc = "streaming" /\ Len(handler.upstream) < MaxChunks
  /\ \E chunk \in SrvChunks :
       LET yielded == [handler EXCEPT !.upstream = Append(handler.upstream, chunk)] IN
       IF Callable(handler.mapper)
       THEN LET r == MapChunk(chunk, handler.mapper.wasThinking) IN
            /\ res' = [res EXCEPT !.events = Append(res.events,
                                                    [data |-> StringifyChunk(r.result)])]
            /\ handler' = [yielded EXCEPT !.mapper.wasThinking = r.wasThinking]
       ELSE LET s == SendError(res, 500, ProxyError("mapChunk is not a function"))
            IN res' = s.res /\ handler' = AfterSendError(yielded, s)
  /\ UNCHANGED <<request, mapVars, notServer>>

\* The upstream ends: the sentinel is written and the response ended.
UpstreamEnd ==
  /\ handler.pc = "streaming"
  /\ res' = [res EXCEPT !.events = Append(res.events, Done), !.ended = TRUE]
  /\ handler' = [handler EXCEPT !.pc = "returned"]
  /\ UNCHANGED <<request, mapVars, notServer>>

\* The upstream throws: the catch block calls sendError.
UpstreamError ==
  /\ handler.pc = "streaming"
  /\ LET s == SendError(res, 500, ProxyError("provider error"))
     IN /\ res' = s.res
        /\ handler' = AfterSendError([handler EXCEPT !.upstreamFailed = TRUE], s)
  /\ UNCHANGED <<request, mapVars, notServer>>

\* sendChat resolves: the response is mapped and written (lines 140-143).
ChatResolve ==
  /\ handler.pc = "awaitChat"
  /\ \E g \in SrvResponses :
       res' = End(WriteHead(res, 200, "application/json"),
                  StringifyResponse(MapResponse(g)))
  /\ handler' = [handler EXCEPT !.pc = "returned"]
  /\ UNCHANGED <<request, mapVars, notServer>>

\* sendChat rejects: the catch block answers 500.
ChatReject ==
  /\ handler.pc = "awaitChat"
  /\ LET s == SendError(res, 500, ProxyError("provider error"))
     IN /\ res' = s.res
        /\ handler' = AfterSendError([handler EXCEPT !.upstreamFailed = TRUE], s)
  /\ UNCHANGED <<request, mapVars, notServer>>

ServerNext ==
  \/ HandleRequest \/ FetchResolve \/ FetchReject \/ Dispatch \/ MapFailed
  \/ UpstreamChunk \/ UpstreamEnd \/ UpstreamError \/ ChatResolve \/ ChatReject

SpecServer == ServerInit /\ [][ServerNext]_vars

Finished == handler.pc \in {"returned", "rejected"}

CallNames == {handler.calls[i].fn : i \in 1..Len(handler.calls)}

\* A chat-completions body with an empty messages array, or with a message
\* whose role is not system, user or assistant.
RejectedByRole(body) ==
  /\ body.t = "object"
  /\ IsArray(Prop(body, "messages"))
  /\ LET ms == Prop(body, "messages").v IN
       \/ ms = <<>>
       \/ \E i \in 1..Len(ms) : ms[i].t = "object" /\ Prop(ms[i], "role") \notin MapRoles

\* C2: for a chat-completions request whose body has an empty messages
\* array or a message with a role outside system, user, assistant, the
\* validator returns valid:false, the handler never calls mapRequest,
\* fetchAndEncode, sendChat or sendChatStream, and it ends having answered
\* 400 with an error.
C2_BadRoleAnswered400 ==
  (IsChat(request) /\ request.json = "ok" /\ RejectedByRole(request.body)) =>
    /\ handler.calls = <<>> /\ mapCall.fetches = <<>>
    /\ handler.pc # "start" =>
         /\ ValidateChatRequest(request.body).kind = "invalid"
         /\ handler.pc = "returned"
         /\ res.heads = <<[status |-> 400, contentType |-> "application/json"]>>
         /\ res.ended /\ "error" \in DOMAIN res.body

RECURSIVE MappedEvents(_, _)
MappedEvents(chunks, was) ==
  IF chunks = <<>> THEN <<>>
  ELSE LET r == MapChunk(Head(chunks), was) IN
       <<[data |-> StringifyChunk(r.result)]>> \o MappedEvents(Tail(chunks), r.wasThinking)

\* C9: when the handler of a streaming request has finished and the
\* upstream yielded its N chunks without error, the response has the 200
\* event-stream head, the N chunks mapped in order by one stream mapper as
\* its first N events, the [DONE] sentinel as its last, and is ended.
C9_StreamDelivered ==
  (Finished /\ "sendChatStream" \in CallNames /\ ~handler.upstreamFailed) =>
    /\ res.heads = <<[status |-> 200, contentType |-> "text/event-stream"]>>
    /\ res.events = MappedEvents(handler.upstream, FALSE) \o <<Done>>
    /\ res.ended

\* C10: every error object written to a response carries a message and a
\* type, both strings or message templates, and at most a code besides.
C10_ErrorsCarryType ==
  (res.ended /\ "error" \in DOMAIN res.body) =>
    /\ {"message", "type"} \subseteq DOMAIN res.body.error
    /\ DOMAIN res.body.error \subseteq {"message", "type", "code"}

ServerJson(status) == [status |-> status, contentType |-> "application/json"]

\* The body of a proxy error response as the caller reads it.
ApiErrorBody(message) == [error |-> [message |-> Name(message), type |-> Name("api_error")]]

\* A fetchAndEncode call of the handler's mapRequest call has failed.
FetchFailed == mapCall.pc = "failed" /\ mapCall.error \in FetchErrors

\* C11: once a fetchAndEncode call has failed during mapRequest, mapRequest
\* has failed with that error and produced no provider request, neither
\* sendChat nor sendChatStream is ever called, nothing is streamed, the
\* handler ends with a single 500 response carrying that error, and no
\* further fetch is started.
C11_FetchFailureAborts ==
  /\ [](FetchFailed =>
          /\ mapped = Undefined
          /\ CallNames \cap {"sendChat", "sendChatStream"} = {}
          /\ res.events = <<>>
          /\ handler.pc \in {"mapping", "returned"}
          /\ handler.pc = "returned" =>
               /\ res.heads = <<ServerJson(500)>>
               /\ res.ended
               /\ res.body = ApiErrorBody(mapCall.error))
  /\ [][FetchFailed => mapCall' = mapCall]_vars

\* C11 witness: of two image messages the first fetch failed; the second
\* was never fetched and the handler answered 500.
C11_Witness ==
  /\ FetchFailed /\ handler.pc = "returned"
  /\ Len(ImageUrls(Prop(mBody, "messages").v)) = 2
  /\ Len(mapCall.fetches) = 1
  /\ res.heads = <<ServerJson(500)>>
  /\ res.body.error.message = Name("Image fetch timed out")

\* C13: when the handler has finished after the model client raised an
\* error, from sendChat or from the sendChatStream iteration, the response
\* is a single 500 whose body is an api_error with the error's message.
C13_ClientErrorAnswered500 ==
  (Finished /\ handler.upstreamFailed) =>
    /\ res.heads = <<ServerJson(500)>>
    /\ res.ended
    /\ res.body = ApiErrorBody("provider error")

\* The state of a stream mapper that has processed chunks, from state was.
RECURSIVE StateAfter(_, _)
StateAfter(chunks, was) ==
  IF chunks = <<>> THEN was
  ELSE StateAfter(Tail(chunks), MapChunk(Head(chunks), was).wasThinking)

ClosingEvent == [data |-> CreateFinalStreamChunk(TRUE)]

\* C16: when the handler of a streaming request has finished without an
\* upstream error, and the chunks the upstream yielded leave the stream
\* mapper state true, the closing chunk of createFinalStreamChunk is among
\* the events, right before the [DONE] sentinel; when they leave it false,
\* no closing chunk is among the events.
C16_ClosingChunkAtEnd ==
  (Finished /\ "sendChatStream" \in CallNames /\ ~handler.upstreamFailed) =>
    IF StateAfter(handler.upstream, FALSE)
    THEN \E k \in 1..(Len(res.events) - 1) :
           res.events[k] = ClosingEvent /\ res.events[k + 1] = Done
    ELSE \A k \in 1..Len(res.events) : res.events[k] # ClosingEvent

\* The provider response carries no candidate output: candidates is absent
\* or an empty array.
NoCandidateOutput(g) ==
  g.candidates = Undefined \/ (IsArray(g.candidates) /\ g.candidates.v = <<>>)

\* C12: for a provider response without candidate output, mapResponse
\* returns an error object and no chat completion, its message the
\* promptFeedback.blockReason when there is one and 'No candidates
\* returned.' otherwise.
C12_NoCandidatesIsError ==
  (oResp # Undefined /\ NoCandidateOutput(gResp)) =>
    /\ "error" \in DOMAIN oResp
    /\ "choices" \notin DOMAIN oResp
    /\ oResp.error.message =
         (IF gResp.promptFeedback = Undefined THEN Name("No candidates returned.")
          ELSE gResp.promptFeedback.v.blockReason)

\* The rules of the validator in their stated order, a missing property (and
\* any property of a value that is not an object) reading as undefined.
ItemRule(item, i, j) ==
  LET type == Prop(item, "type")
      url == Prop(Prop(item, "image_url"), "url")
  IN CASE ~IsString(type) ->
            Invalid("content.type is required", i, j, "missing_required_parameter")
       [] type = Name("text") /\ ~IsString(Prop(item, "text")) ->
            Invalid("content.text must be a string for type text", i, j, "invalid_type")
       [] type = Name("image_url") /\ ~IsString(url) ->
            Invalid("content.image_url.url is required for type image_url", i, j,
                    "missing_required_parameter")
       [] type = Name("image_url") /\ IsString(url) /\ ~ValidURL(url.v) ->
            Invalid("content.image_url.url is not a valid URL", i, j, "invalid_value")
       [] OTHER -> NoFailure

MessageRule(msg, i) ==
  LET role == Prop(msg, "role")
      content == Prop(msg, "content")
  IN CASE ~IsString(role) ->
            Invalid("role is required and must be a string", i, -1, "invalid_type")
       [] IsString(role) /\ role \notin ValidRoles ->
            Invalid("role must be one of: system, user, assistant", i, -1, "invalid_value")
       [] role \in ValidRoles /\ content \in {Undefined, Null} ->
            Invalid("content is required", i, -1, "missing_required_parameter")
       [] role \in ValidRoles /\ content.t \notin {"undefined", "null", "string", "array"} ->
            Invalid("content must be a string or array", i, -1, "invalid_type")
       [] role \in ValidRoles /\ IsArray(content)
          /\ (\E j \in 1..Len(content.v) : ItemRule(content.v[j], i, j - 1) # NoFailure) ->
            LET first == CHOOSE j \in 1..Len(content.v) :
                           /\ ItemRule(content.v[j], i, j - 1) # NoFailure
                           /\ \A k \in 1..(j - 1) : ItemRule(content.v[k], i, k - 1) = NoFailure
            IN ItemRule(content.v[first], i, first - 1)
       [] OTHER -> NoFailure

FirstFailingRule(body) ==
  LET messages == Prop(body, "messages") IN
  CASE body.t \notin {"object", "array"} ->
         [kind |-> "invalid",
          error |-> CreateError(Msg("Request body must be a JSON object", -1, -1),
                                Name("invalid_request_error"), Undefined)]
    [] body.t \in {"object", "array"} /\ ~IsArray(messages) ->
         Invalid("messages is required and must be an array", -1, -1,
                 "missing_required_parameter")
    [] IsArray(messages) /\ messages.v = <<>> ->
         Invalid("messages must contain at least one message", -1, -1, "invalid_value")
    [] IsArray(messages)
       /\ (\E i \in 1..Len(messages.v) : MessageRule(messages.v[i], i - 1) # NoFailure) ->
         LET first == CHOOSE i \in 1..Len(messages.v) :
                        /\ MessageRule(messages.v[i], i - 1) # NoFailure
                        /\ \A k \in 1..(i - 1) : MessageRule(messages.v[k], k - 1) = NoFailure
         IN MessageRule(messages.v[first], first - 1)
    [] OTHER -> NoFailure

\* C14: validateChatRequest returns the error of the first failing rule, in
\* the order body, messages, then message by message (role, content, then
\* item by item), and valid:true exactly when no rule fails.
C14_FirstFailingRule ==
  vResult.kind # "pending" =>
    IF FirstFailingRule(vBody) = NoFailure
    THEN vResult.kind = "valid"
    ELSE vResult = FirstFailingRule(vBody)

HasThought(chunk) == \E i \in 1..Len(chunk.parts) : chunk.parts[i].thought = TRUE

\* C15: the state of a stream mapper is false when it is created, and after
\* every mapChunk call it is true exactly when some part of the chunk just
\* processed had thought === true, whatever it was before the call.
C15_StateFollowsLastChunk ==
  wasThinking = (fed # <<>> /\ HasThought(fed[Len(fed)]))

\* C15 witness: a chunk with a reasoning part, then a chunk with only a
\* plain part, then a chunk without parts: the state went back to false.
C15_Witness ==
  /\ Len(fed) = 3
  /\ HasThought(fed[1])
  /\ fed[2].parts = <<PlainPart(<<"p">>)>>
  /\ fed[3].parts = <<>>
  /\ wasThinking = FALSE

(***************************************************************************)
(* Specification SpecInstances: two stream mapper instances, one per       *)
(* connection in flight, their mapChunk calls interleaved                  *)
(***************************************************************************)
\* Bound: the chunks fed to each instance.
MaxEachChunks == 2

Connections == 1..2

InstanceChunks ==
  {[parts |-> ps, usage |-> Undefined] :
     ps \in {<<>>, <<ThoughtPart(<<"r">>)>>, <<PlainPart(<<"p">>)>>,
             <<ThoughtPart(<<"r">>), PlainPart(<<"p">>)>>}}

\* createStreamMapper(): a fresh closure variable.
NewInstance == [wasThinking |-> FALSE, fed |-> <<>>, deltas |-> <<>>]

\* A mutant: wasThinking is one module-level variable shared by all
\* instances.
MapChunkOnShared(insts, i, chunk) ==
  LET r == MapChunk(chunk, insts[1].wasThinking) IN
  [j \in DOMAIN insts |->
     IF j = i THEN [wasThinking |-> r.wasThinking,
                    fed |-> Append(insts[j].fed, chunk),
                    deltas |-> Append(insts[j].deltas, r.result)]
     ELSE [insts[j] EXCEPT !.wasThinking = r.wasThinking]]

\* mapChunk(chunk) on instance i: it reads and writes the closure variable
\* of that instance only.
MapChunkOn(insts, i, chunk) ==
  LET r == MapChunk(chunk, insts[i].wasThinking) IN
  [insts EXCEPT ![i] = [wasThinking |-> r.wasThinking,
                         fed |-> Append(insts[i].fed, chunk),
                         deltas |-> Append(insts[i].deltas, r.result)]]

InstancesInit ==
  /\ instances = [i \in Connections |-> NewInstance]
  /\ StreamIdle /\ ValidateIdle /\ MapIdle /\ RespIdle /\ FetchIdle /\ ServerIdle

\* The handler of some connection gives its instance the next chunk.
InstanceMapChunk ==
  /\ \E i \in Connections, chunk \in InstanceChunks :
       /\ Len(instances[i].fed) < MaxEachChunks
       /\ instances' = MapChunkOn(instances, i, chunk)
  /\ UNCHANGED notInstances

InstancesNext == InstanceMapChunk

SpecInstances == InstancesInit /\ [][InstancesNext]_vars

\* What a fresh instance returns for chunks when it processes them alone.
RECURSIVE ResultsAlone(_, _)
ResultsAlone(chunks, was) ==
  IF chunks = <<>> THEN <<>>
  ELSE LET r == MapChunk(Head(chunks), was) IN
       <<r.result>> \o ResultsAlone(Tail(chunks), r.wasThinking)

\* C17: under every interleaving of the mapChunk calls of two instances,
\* each instance has returned the chunks, and is in the state, that its own
\* chunk sequence gives when processed alone; and a mapChunk call on one
\* instance leaves the other instance as it was.
C17_InstancesIndependent ==
  /\ [](\A i \in Connections :
          /\ instances[i].deltas = ResultsAlone(instances[i].fed, FALSE)
          /\ instances[i].wasThinking = StateAfter(instances[i].fed, FALSE))
  /\ [][\A i \in Connections :
          instances'[i].fed = instances[i].fed => instances'[i] = instances[i]]_vars

\* C17 witness: the first instance is inside a reasoning run while the
\* second has returned a plain chunk with no marker and stays closed.
C17_Witness ==
  /\ instances # <<>>
  /\ instances[1].fed = <<[parts |-> <<ThoughtPart(<<"r">>)>>, usage |-> Undefined]>>
  /\ instances[1].wasThinking = TRUE
  /\ instances[2].fed = <<[parts |-> <<PlainPart(<<"p">>)>>, usage |-> Undefined]>>
  /\ instances[2].deltas[1].delta.content = Str(<<"p">>)
  /\ instances[2].wasThinking = FALSE

(***************************************************************************)
(* The system instruction, the contents and the order of the fetches       *)
(***************************************************************************)
RECURSIVE SystemTexts(_)
SystemTexts(msgs) ==
  IF msgs = <<>> THEN <<>>
  ELSE (IF Prop(Head(msgs), "role") = Name("system")
        THEN <<SystemText(Prop(Head(msgs), "content")).v>> ELSE <<>>)
       \o SystemTexts(Tail(msgs))

RECURSIVE JoinedByBlankLine(_)
JoinedByBlankLine(texts) ==
  IF Len(texts) = 1 THEN Head(texts)
  ELSE Head(texts) \o <<"\n\n">> \o JoinedByBlankLine(Tail(texts))

NonSystem(msgs) == SelectSeq(msgs, LAMBDA m : Prop(m, "role") # Name("system"))

\* C18: when mapRequest resolves, systemInstruction is the texts of the
\* system messages in message order with "\n\n" between every two
\* consecutive ones (undefined when there is no system message), empty
\* texts included, and contents has no entry for a system message.
C18_SystemInstructionJoined ==
  mapCall.pc = "done" =>
    LET msgs == mBody.messages.v
        texts == SystemTexts(msgs)
    IN /\ mapped.geminiReq.systemInstruction =
            IF texts = <<>> THEN Undefined ELSE Str(JoinedByBlankLine(texts))
       /\ Len(mapped.geminiReq.contents) = Len(NonSystem(msgs))

\* What one content item contributes to parts.
ItemParts(item) ==
  IF Prop(item, "type") = Name("image_url")
  THEN LET url == Prop(Prop(item, "image_url"), "url").v
           d == ParseDataUrl(url)
       IN <<IF d.kind = "ok" THEN GInline(d.mimeType, d.data) ELSE Fetched(url)>>
  ELSE IF Prop(item, "type") = Name("text") /\ Prop(item, "text") # Str(<<>>)
  THEN <<GText(Prop(item, "text").v)>>
  ELSE <<>>

RECURSIVE ItemsParts(_)
ItemsParts(items) ==
  IF items = <<>> THEN <<>> ELSE ItemParts(Head(items)) \o ItemsParts(Tail(items))

ExpectedEntry(m) ==
  [role |-> CASE Prop(m, "role") = Name("user") -> "user"
              [] Prop(m, "role") = Name("assistant") -> "model",
   parts |-> IF IsArray(Prop(m, "content")) THEN ItemsParts(Prop(m, "content").v)
             ELSE <<GText(Prop(m, "content").v)>>]

\* C19: when mapRequest resolves, contents has exactly one entry per
\* non-system message in the order of the messages, with role user for a
\* user message and model for an assistant message, and the parts of an
\* entry are what the items of the message's content yield, in item order.
C19_ContentsKeepOrder ==
  mapCall.pc = "done" =>
    LET others == NonSystem(mBody.messages.v)
    IN mapped.geminiReq.contents = [k \in 1..Len(others) |-> ExpectedEntry(others[k])]

\* An assistant message whose content is a remote image followed by a text.
C19_Witness ==
  /\ mapCall.pc = "done"
  /\ mBody.messages.v =
       <<Message(Name("assistant"), Arr(<<ImageItem(HttpsUrl), TextItem(<<"t">>)>>))>>
  /\ mapped.geminiReq.contents =
       <<[role |-> "model", parts |-> <<Fetched(HttpsUrl), GText(<<"t">>)>>]>>

\* The URLs mapRequest has to fetch, in message-then-item encounter order.
ToFetch(msgs) == SelectSeq(ImageUrls(msgs), LAMBDA url : ParseDataUrl(url).kind = "null")

\* How many fetches of the call have been started and have not settled.
InFlight == Len(mapCall.fetches) - mapCall.settled

\* C20: the fetches of one mapRequest call are started in message-then-item
\* encounter order, a fetch is started only when every earlier fetch of the
\* call has settled, and at most one fetch is in flight at any moment.
C20_FetchesOneAtATime ==
  /\ [](/\ InFlight \in {0, 1}
        /\ InFlight = 1 <=> mapCall.pc = "fetching"
        /\ Len(mapCall.fetches) <= Len(ToFetch(mBody.messages.v))
        /\ mapCall.fetches = SubSeq(ToFetch(mBody.messages.v), 1, Len(mapCall.fetches)))
  /\ [][Len(mapCall'.fetches) > Len(mapCall.fetches) =>
          /\ Len(mapCall'.fetches) = Len(mapCall.fetches) + 1
          /\ mapCall'.settled = Len(mapCall.fetches)]_vars

\* Two remote images in two messages: the second fetch is in flight after
\* the first has settled.
C20_Witness ==
  /\ mBody.messages.v =
       <<Message(Name("user"), Arr(<<ImageItem(OtherHttpsUrl)>>)),
         Message(Name("user"), Arr(<<ImageItem(HttpsUrl)>>))>>
  /\ mapCall.fetches = <<OtherHttpsUrl, HttpsUrl>>
  /\ mapCall.settled = 1
  /\ mapCall.pc = "fetching"

(***************************************************************************)
(* The generation config                                                   *)
(***************************************************************************)
\* The raw generationConfig object of the body (no key when the body has none).
RawConfig == Coalesce(Prop(mBody, "generationConfig"), [t |-> "object", v |-> EmptyConfig]).v

\* The named field of the body behind a key of the config.
NamedField(k) ==
  CASE k = "temperature" -> Prop(mBody, "temperature")
    [] k = "maxOutputTokens" -> Prop(mBody, "max_tokens")
    [] k = "topP" -> Prop(mBody, "top_p")

SamplingKeys == {"temperature", "maxOutputTokens", "topP"}
ReasoningKeys == {"thinking", "enable_thoughts", "thinking_budget"}

\* temperature, maxOutputTokens and topP hold the value of the raw object
\* when it has the key and the named field otherwise.
RawWinsOverNamed ==
  \A k \in SamplingKeys :
    /\ k \in DOMAIN mapped.geminiReq.generationConfig
    /\ mapped.geminiReq.generationConfig[k] =
         IF k \in DOMAIN RawConfig THEN RawConfig[k] ELSE NamedField(k)

\* C21 as stated: when mapRequest resolves, each of temperature,
\* maxOutputTokens and topP is the raw object's value when the raw object
\* has the key and the named field otherwise, and every other key of the
\* raw object is in the config with the raw object's value.
C21_RawWinsOthersUnchanged ==
  mapCall.pc = "done" =>
    /\ RawWinsOverNamed
    /\ \A k \in DOMAIN RawConfig \ SamplingKeys :
         Get(mapped.geminiReq.generationConfig, k) = RawConfig[k]

\* The other keys of the raw object that mapRequest assigns afterwards.
AssignedLater(k) ==
  \/ k \in {"thinking", "enable_thoughts"} /\ Prop(mBody, "include_reasoning") = Bool(TRUE)
  \/ k = "thinking_budget" /\ Prop(mBody, "include_reasoning") = Bool(TRUE)
       /\ IsNullish(RawConfig[k])
  \/ k = "maxInputTokens" /\ IsNullish(RawConfig[k])

\* C21 amended: when mapRequest resolves, each of temperature,
\* maxOutputTokens and topP is the raw object's value when the raw object
\* has the key and the named field otherwise, and every other key of the
\* raw object keeps the raw object's value unless it is thinking or
\* enable_thoughts under include_reasoning true, a null or undefined
\* thinking_budget under include_reasoning true, or a null or undefined
\* maxInputTokens.
C21_RawWinsOthersUnlessAssigned ==
  mapCall.pc = "done" =>
    /\ RawWinsOverNamed
    /\ \A k \in DOMAIN RawConfig \ SamplingKeys :
         ~AssignedLater(k) => Get(mapped.geminiReq.generationConfig, k) = RawConfig[k]

\* The raw object and the named field both give a temperature, and the raw
\* object holds a key mapRequest knows nothing of.
C21_Witness ==
  /\ mapCall.pc = "done"
  /\ Prop(mBody, "temperature") = Num(1)
  /\ DOMAIN RawConfig = {"temperature", "custom"}
  /\ RawConfig["temperature"] = Num(7)
  /\ mapped.geminiReq.generationConfig["temperature"] = Num(7)
  /\ mapped.geminiReq.generationConfig["topP"] = Prop(mBody, "top_p")
  /\ mapped.geminiReq.generationConfig["custom"] = RawConfig["custom"]

\* C22: when mapRequest resolves and include_reasoning is true, thinking
\* and enable_thoughts are true and thinking_budget is the raw object's
\* value when that is neither null nor undefined and 2048 otherwise; when
\* include_reasoning is not true, the config has each of the three keys
\* exactly when the raw object has it, with the raw object's value.
C22_ReasoningKeys ==
  mapCall.pc = "done" =>
    LET config == mapped.geminiReq.generationConfig IN
    IF Prop(mBody, "include_reasoning") = Bool(TRUE)
    THEN /\ ReasoningKeys \subseteq DOMAIN config
         /\ config["thinking"] = Bool(TRUE)
         /\ config["enable_thoughts"] = Bool(TRUE)
         /\ config["thinking_budget"] =
              IF IsNullish(Get(RawConfig, "thinking_budget")) THEN Num(2048)
              ELSE RawConfig["thinking_budget"]
    ELSE \A k \in ReasoningKeys :
           /\ k \in DOMAIN config <=> k \in DOMAIN RawConfig
           /\ k \in DOMAIN RawConfig => config[k] = RawConfig[k]

\* Reasoning is asked for and the raw object brings its own budget.
C22_Witness ==
  /\ mapCall.pc = "done"
  /\ Prop(mBody, "include_reasoning") = Bool(TRUE)
  /\ DOMAIN RawConfig = {"thinking_budget"}
  /\ RawConfig["thinking_budget"] = Num(7)
  /\ mapped.geminiReq.generationConfig["thinking_budget"] = Num(7)
  /\ mapped.geminiReq.generationConfig["thinking"] = Bool(TRUE)

(***************************************************************************)
(* The grounding tool on its way to the model client                       *)
(***************************************************************************)
\* An array that holds the googleSearch entry.
HoldsGoogleSearch(tools) ==
  IsArray(tools) /\ \E i \in 1..Len(tools.v) : tools.v[i] = "googleSearch"

\* C23: whenever mapRequest has put the googleSearch entry into
\* geminiReq.tools, the config of every generateContent or
\* generateContentStream call made for the request holds the googleSearch
\* entry in its tools.
C23_GroundingReachesClient ==
  \A i \in 1..Len(handler.generate) :
    HoldsGoogleSearch(mapped.geminiReq.tools) =>
      HoldsGoogleSearch(Get(handler.generate[i].config, "tools"))

(***************************************************************************)
(* The errors of the fetcher                                               *)
(***************************************************************************)
SizeMessages == {"Image too large (declared)", "Image too large (during download)"}

\* C24: once the timer has fired, before the response, while the body is
\* read or while it is buffered, fetchAndEncode has failed with the timeout
\* error; a failure without the timer is never the timeout error: after a
\* non-2xx response it is the status error, after a 2xx response it is one
\* of the size errors, and with no response it is the transport error, all
\* different from one another.
C24_TimeoutDistinct ==
  /\ fetchCall.timerFired =>
       fetchCall.pc = "rejected" /\ fetchCall.error = "Image fetch timed out"
  /\ (fetchCall.pc = "rejected" /\ ~fetchCall.timerFired) =>
       /\ fetchCall.error # "Image fetch timed out"
       /\ (fetchCall.status # Undefined /\ ~fetchRes.ok) =>
            fetchCall.error = "Failed to fetch image (HTTP status)"
       /\ (fetchCall.status # Undefined /\ fetchRes.ok) =>
            /\ fetchCall.error \in SizeMessages
            /\ \/ GreaterThan(ParseInt(Coalesce(fetchRes.contentLength, Str(<<>>))),
                              MAX_IMAGE_SIZE_BYTES)
               \/ Total(fetchCall.sizes) > MAX_IMAGE_SIZE_BYTES
               \/ ~fetchRes.hasBody
       /\ fetchCall.status = Undefined => fetchCall.error = "fetch failed"

\* The timer fired while the body was being downloaded, two chunks in.
C24_Witness ==
  /\ fetchCall.timerFired
  /\ fetchRes.ok
  /\ Len(fetchCall.sizes) = 2
  /\ fetchCall.pc = "rejected"
  /\ fetchCall.error = "Image fetch timed out"

\* The ceiling was crossed during the download: the controller is aborted
\* and the error is the size error.
C24_WitnessAborted ==
  /\ fetchCall.aborted /\ ~fetchCall.timerFired
  /\ fetchCall.pc = "rejected"
  /\ fetchCall.error = "Image too large (during download)"

(***************************************************************************)
(* The markers in the emitted text                                         *)
(***************************************************************************)
\* The opening markers minus the closing markers among the tokens of text.
RECURSIVE Depth(_)
Depth(text) ==
  IF text = <<>> THEN 0
  ELSE Depth(SubSeq(text, 1, Len(text) - 1))
       + (CASE text[Len(text)] = OpenTag -> 1
            [] text[Len(text)] = CloseTag -> -1
            [] OTHER -> 0)

\* C25: in the concatenation of the delta contents emitted by one stream
\* mapper instance the markers alternate, starting with an opening marker:
\* at every prefix the opening markers minus the closing markers is 0 or 1.
C25_MarkersAlternate ==
  LET text == Emitted(deltas) IN
  \A n \in 0..Len(text) : Depth(SubSeq(text, 1, n)) \in {0, 1}

(***************************************************************************)
(* Specification SpecServerLive: the handler of one request, with every    *)
(* pending callback eventually run                                         *)
(***************************************************************************)
\* The event loop runs every callback that is ready, and the fetches and the
\* upstream the handler waits for eventually settle, yield or end.
SpecServerLive == SpecServer /\ WF_vars(ServerNext)

\* C26: for a POST /v1/chat/completions request the handler writes the
\* response head at most once, and the response is eventually ended.
C26_HeadOnceEndedOnce ==
  /\ [](IsChat(request) => Len(res.heads) <= 1)
  /\ (IsChat(request) => <>res.ended)

====
